---- MODULE Spec2Model ----
(***************************************************************************)
(* Whistle to Bach (FuGal): transcription of a pitch track into a melody   *)
(* and algorithmic generation of a four-voice fugue.                       *)
(*                                                                         *)
(* Numbers.  JavaScript numbers are modelled by exact integers.  Pitches   *)
(* are MIDI integers.  Every quotient the code rounds is kept as a pair    *)
(* numerator/denominator and rounded by Round, which is Math.round         *)
(* (floor(x + 1/2), ties towards +infinity).  Where the code divides       *)
(* without rounding the inputs are drawn so that the quotient is whole.    *)
(* Times are counted in units of 1/6 ms (UnitsPerSecond per second), so    *)
(* that 1/8 of a beat is a whole number of units at the tempos used.       *)
(*                                                                         *)
(* The module holds one specification per operation family; the variables  *)
(* of the families a specification does not exercise stay at their idle    *)
(* values.                                                                 *)
(***************************************************************************)
EXTENDS Integers, Sequences, FiniteSets, TLC

VARIABLES
    \* ---- FugueGenerator.clampPitch, run one loop iteration at a time
    cpPc,           \* "up" (first while), "down" (second while), "ret", "done"
    cpArg,          \* the pitch argument as passed
    cpPitch,        \* the local variable pitch
    cpMin, cpMax,   \* the arguments min and max
    cpIter,         \* loop iterations executed so far
    \* ---- FugueGenerator.transposeToRange, applied once and then again
    trPc,           \* "call", "once", "twice"
    trSequence,     \* the argument sequence
    trRange,        \* the argument range {min, max}
    trOnce,         \* transposeToRange(trSequence, trRange)
    trTwice,        \* transposeToRange(trOnce, trRange)
    \* ---- AudioTranscriber.quantizeNotes
    qPc,            \* "call", "done"
    qNotes,         \* the argument notes
    qBpm,           \* the argument bpm
    qResult,        \* the returned notes
    \* ---- AudioTranscriber.segmentNotes, one loop iteration per step
    sgPc,           \* "loop", "done"
    pitches,        \* the argument pitches (see hzToCents for the encoding)
    confidences,    \* the argument confidences, in tenths
    trackDuration,  \* the argument duration
    config,         \* the argument config {centsThreshold, silenceMs}
    frame,          \* the loop variable i
    currentNote,    \* <<>> for null, <<note>> for an open note
    silenceCounter,
    segNotes,       \* the local notes, returned at the end
    \* ---- AudioTranscriber.transcribe, which calls segmentNotes above
    tcPc,           \* "call", "segmenting", "returned", "thrown"
    audioFeatures,  \* what SPICE returns: {f0_hz, confidences}
    audioDuration,  \* audioBuffer.duration
    tcOptions,      \* the argument options; a field is <<>> when absent
    transcribedSequence,  \* the returned NoteSequence
    \* ---- FugueGenerator: the instance and one generate() call
    gPc,            \* "call", "begun", "exposed", "coda", "done", "thrown"
    options,        \* this.options: <<>> while undefined, else <<record>>
    beatDuration,   \* this.beatDuration, in time units
    inputSequence,  \* the argument: {kind, notes, qpm}; kind is "null" for
                    \* no sequence, "noNotes" for one without a notes field,
                    \* else "notes"; qpm is 0 when tempos is absent
    argOptions,     \* the argument options; a field is <<>> when absent
    subject,        \* locals of generate()
    answer,
    countersubject,
    exposition,     \* {notes, endBeat}
    coda,           \* {notes, endBeat}
    fugue,          \* the returned NoteSequence, without notes before it
    randomTape,     \* the values Math.random() returns, in hundredths
    randomPos,      \* the number of Math.random() calls made so far
    calledOn,       \* the instance as the call found it: {options,
                    \* beatDuration}
    \* ---- exportMidi of main.js, and a reader of the track it writes
    mPc,            \* "call", "nothing", "written", "read"
    noteSequence,   \* the argument: {notes, qpm}; qpm 0 when tempos is absent
    events,         \* the local events after events.sort
    trackData,      \* the note events of the track, one record per event
    rdPolicy,       \* which sounding note a note-off ends: "fifo" or "lifo"
    rdPos,          \* the reader's position in trackData
    rdTick,         \* the reader's running tick
    sounding,       \* notes switched on and not yet off, oldest first
    recovered,      \* the notes read back: {pitch, startTick, endTick}
    \* ---- the record button of main.js and the AudioRecorder it drives
    isRecording,    \* the flag of main.js
    audioBuffer,    \* the global of main.js: <<>> for null, else <<r>>, the
                    \* decoded audio of MediaRecorder r
    mediaRecorder,  \* this.mediaRecorder: <<>> for null, else <<r>>
    recorders,      \* the MediaRecorders constructed so far, by their
                    \* state: "recording" or "inactive"
    handlers        \* one record per click: where its handler stands
                    \* ("context", "stream", "stopping", "done") and the
                    \* MediaRecorder whose stop it awaits (0 when none)

clampVars == <<cpPc, cpArg, cpPitch, cpMin, cpMax, cpIter>>
rangeVars == <<trPc, trSequence, trRange, trOnce, trTwice>>
quantVars == <<qPc, qNotes, qBpm, qResult>>
segVars == <<sgPc, pitches, confidences, trackDuration, config, frame,
             currentNote, silenceCounter, segNotes>>
transcribeVars == <<tcPc, audioFeatures, audioDuration, tcOptions,
                    transcribedSequence>>
midiVars == <<mPc, noteSequence, events, trackData, rdPolicy, rdPos, rdTick,
              sounding, recovered>>
genVars == <<gPc, options, beatDuration, inputSequence, argOptions, subject,
             answer, countersubject, exposition, coda, fugue, randomTape,
             randomPos, calledOn>>
recorderVars == <<isRecording, audioBuffer, mediaRecorder, recorders,
                  handlers>>
vars == <<clampVars, rangeVars, quantVars, segVars, genVars, midiVars,
          transcribeVars, recorderVars>>

(***************************************************************************)
(* Arithmetic helpers                                                      *)
(***************************************************************************)
\* x || d and x ?? d
OrDefault(x, d) == IF x = 0 THEN d ELSE x
Nullish(x, d) == IF x = <<>> THEN d ELSE x[1]

Max2(a, b) == IF a >= b THEN a ELSE b
Min2(a, b) == IF a <= b THEN a ELSE b
Abs(x) == IF x < 0 THEN -x ELSE x

\* Math.round(num / den) for den > 0: floor(num/den + 1/2).
Round(num, den) == (2 * num + den) \div (2 * den)

\* Math.ceil(num / den) and Math.floor(num / den) for den > 0.
Ceil(num, den) == -((-num) \div den)
Floor(num, den) == num \div den

RECURSIVE SumPitch(_)
SumPitch(s) == IF s = <<>> THEN 0 ELSE Head(s).pitch + SumPitch(Tail(s))

UnitsPerSecond == 6 * 1000

(***************************************************************************)
(* Bounds of the pitch-range specifications                                *)
(***************************************************************************)
MaxPitchArg == 100
MaxRangeLo == 0
MaxRangeWidth == 26
MaxSeqLen == 3
PitchArgs == (0 - 40)..MaxPitchArg

\* The four voice ranges of the constructor and the countersubject range.
VoiceRanges ==
    <<[min |-> 60, max |-> 81], [min |-> 53, max |-> 74],
      [min |-> 48, max |-> 67], [min |-> 36, max |-> 60]>>
CountersubjectRange == [min |-> 48, max |-> 72]

(***************************************************************************)
(* clampPitch(pitch, min, max)                                             *)
(***************************************************************************)
RECURSIVE FoldUp(_, _)
FoldUp(p, lo) == IF p < lo THEN FoldUp(p + 12, lo) ELSE p

RECURSIVE FoldDown(_, _)
FoldDown(p, hi) == IF p > hi THEN FoldDown(p - 12, hi) ELSE p

HardClamp_NoClamp(p, lo, hi) == p

\* return Math.max(min, Math.min(max, pitch))
HardClamp(p, lo, hi) == Max2(lo, Min2(hi, p))

clampPitch_FoldAtBoundary(p, lo, hi) ==
    LET RECURSIVE Up(_)
        Up(q) == IF q <= lo THEN Up(q + 12) ELSE q
    IN  HardClamp(FoldDown(Up(p), hi), lo, hi)

clampPitch(p, lo, hi) == HardClamp(FoldDown(FoldUp(p, lo), hi), lo, hi)

\* The same function, one loop iteration per step.
ClampUp ==
    /\ cpPc = "up"
    /\ IF cpPitch < cpMin
         THEN /\ cpPitch' = cpPitch + 12
              /\ cpIter' = cpIter + 1
              /\ cpPc' = "up"
         ELSE /\ cpPc' = "down"
              /\ UNCHANGED <<cpPitch, cpIter>>
    /\ UNCHANGED <<cpArg, cpMin, cpMax>>

ClampDown ==
    /\ cpPc = "down"
    /\ IF cpPitch > cpMax
         THEN /\ cpPitch' = cpPitch - 12
              /\ cpIter' = cpIter + 1
              /\ cpPc' = "down"
         ELSE /\ cpPc' = "ret"
              /\ UNCHANGED <<cpPitch, cpIter>>
    /\ UNCHANGED <<cpArg, cpMin, cpMax>>

ClampReturn ==
    /\ cpPc = "ret"
    /\ cpPitch' = HardClamp(cpPitch, cpMin, cpMax)
    /\ cpPc' = "done"
    /\ UNCHANGED <<cpArg, cpMin, cpMax, cpIter>>

ClampIdle ==
    /\ cpPc = "idle" /\ cpArg = 0 /\ cpPitch = 0
    /\ cpMin = 0 /\ cpMax = 0 /\ cpIter = 0

\* Ranges with min <= max: the voice ranges, the countersubject range, and
\* every range of small width near 0 (narrower than an octave included).
SmallRanges ==
    {[min |-> lo, max |-> lo + w] : lo \in 0..MaxRangeLo, w \in 0..MaxRangeWidth}
Ranges ==
    {VoiceRanges[v] : v \in 1..4} \cup {CountersubjectRange} \cup SmallRanges

(***************************************************************************)
(* transposeToRange(sequence, range)                                       *)
(***************************************************************************)
\* Math.round(targetCenter - avgPitch), with targetCenter = (min + max) / 2
\* and avgPitch = sum / length.
\* The array a map or a forEach with push builds: its elements in order.
ArrayOf(f) == <<>> \o f

TransposeOf_TowardZero(sequence, range) ==
    LET num == (range.min + range.max) * Len(sequence) - 2 * SumPitch(sequence)
        den == 2 * Len(sequence)
    IN  IF num >= 0 THEN num \div den ELSE 0 - ((0 - num) \div den)

TransposeOf(sequence, range) ==
    Round((range.min + range.max) * Len(sequence) - 2 * SumPitch(sequence),
          2 * Len(sequence))

transposeToRange_NoFold(sequence, range) ==
    IF Len(sequence) = 0 THEN <<>>
    ELSE LET transpose == TransposeOf(sequence, range)
         IN  ArrayOf([i \in 1..Len(sequence) |->
                        [sequence[i] EXCEPT !.pitch = @ + transpose]])

transposeToRange(sequence, range) ==
    IF Len(sequence) = 0 THEN <<>>
    ELSE LET transpose == TransposeOf(sequence, range)
         IN  ArrayOf([i \in 1..Len(sequence) |->
                        [sequence[i] EXCEPT
                            !.pitch = clampPitch(@ + transpose,
                                                 range.min, range.max)]])

RangeIdle ==
    /\ trPc = "idle" /\ trSequence = <<>> /\ trRange = [min |-> 0, max |-> 0]
    /\ trOnce = <<>> /\ trTwice = <<>>

\* Note lists of 1..MaxSeqLen notes; note i sits at beats 3(i-1)..3(i-1)+i.
SeqPitches == {36, 60, 63, 79, 96}
NoteLists ==
    UNION {[1..n -> SeqPitches] : n \in 1..MaxSeqLen}
NoteListOf(ps) ==
    [i \in 1..Len(ps) |->
        [pitch |-> ps[i], startBeat |-> 3 * (i - 1),
         endBeat |-> 3 * (i - 1) + i, velocity |-> 80]]

TransposeOnce ==
    /\ trPc = "call"
    /\ trOnce' = transposeToRange(trSequence, trRange)
    /\ trPc' = "once"
    /\ UNCHANGED <<trSequence, trRange, trTwice>>

TransposeTwice ==
    /\ trPc = "once"
    /\ trTwice' = transposeToRange(trOnce, trRange)
    /\ trPc' = "twice"
    /\ UNCHANGED <<trSequence, trRange, trOnce>>

(***************************************************************************)
(* AudioTranscriber: the notes of the transcriber                          *)
(***************************************************************************)
\* A frequency f > 0 Hz is encoded on the logarithmic scale the code itself
\* uses, as the whole number c = 1200 * log2(f / 13.75) of cents above
\* 13.75 Hz (= 440 / 2^5), and 0 Hz (unvoiced) as 0.  Then
\* 1200 * log2(f / 440) = c - 6000 and 12 * log2(f / 440) = (c - 6000) / 100.
hzToCents(hz) == IF hz <= 0 THEN 0 ELSE hz - 6000

hzToMidi(hz) == IF hz <= 0 THEN 0 ELSE Round(hz - 6000, 100) + 69

\* The note object segmentNotes creates at a frame.
NewNote(hz, time) ==
    [pitch |-> hzToMidi(hz), pitchHz |-> hz, startTime |-> time,
     endTime |-> time, velocity |-> 80, instrument |-> 0, program |-> 0,
     isDrum |-> FALSE]

(***************************************************************************)
(* quantizeNotes(notes, bpm)                                               *)
(***************************************************************************)
\* The table rhythmicValues, in eighths of a beat (4 beats = 32 eighths).
rhythmicValues == <<32, 24, 16, 12, 8, 6, 4, 3, 2, 1>>

\* const beatDuration = 60 / bpm, in time units.
QuantBeatDuration(bpm) == (60 * UnitsPerSecond) \div bpm

\* Math.abs(durationInBeats - value) scaled by 8 * beatDuration, where
\* durationInBeats = originalDuration / beatDuration.
Cost(originalDuration, beatDur, value) ==
    Abs(8 * originalDuration - value * beatDur)

RECURSIVE BestValue_LastOnTie(_, _, _, _)
BestValue_LastOnTie(originalDuration, beatDur, k, bestValue) ==
    IF k > Len(rhythmicValues) THEN bestValue
    ELSE IF Cost(originalDuration, beatDur, rhythmicValues[k])
              <= Cost(originalDuration, beatDur, bestValue)
         THEN BestValue_LastOnTie(originalDuration, beatDur, k + 1,
                                  rhythmicValues[k])
         ELSE BestValue_LastOnTie(originalDuration, beatDur, k + 1,
                                  bestValue)

\* The for loop over rhythmicValues from entry k on; minCost is the cost of
\* bestValue.
RECURSIVE BestValue(_, _, _, _)
BestValue(originalDuration, beatDur, k, bestValue) ==
    IF k > Len(rhythmicValues) THEN bestValue
    ELSE IF Cost(originalDuration, beatDur, rhythmicValues[k])
              < Cost(originalDuration, beatDur, bestValue)
         THEN BestValue(originalDuration, beatDur, k + 1,
                        rhythmicValues[k])
         ELSE BestValue(originalDuration, beatDur, k + 1, bestValue)

QuantizeNote(note, bpm) ==
    LET beatDur == QuantBeatDuration(bpm)
        originalDuration == note.endTime - note.startTime
        bestValue == BestValue(originalDuration, beatDur, 1,
                               rhythmicValues[1])
        \* Math.round(startInBeats * 4), in quarters of a beat
        quantizedStartBeats == Round(4 * note.startTime, beatDur)
        quantizedStart == (quantizedStartBeats * beatDur) \div 4
        quantizedEnd == quantizedStart + (bestValue * beatDur) \div 8
    IN  [note EXCEPT !.startTime = Max2(0, quantizedStart),
                     !.endTime = quantizedEnd]

quantizeNotes(notes, bpm) ==
    [i \in 1..Len(notes) |-> QuantizeNote(notes[i], bpm)]

QuantizeNotes ==
    /\ qPc = "call"
    /\ qResult' = quantizeNotes(qNotes, qBpm)
    /\ qPc' = "done"
    /\ UNCHANGED <<qNotes, qBpm>>

QuantIdle ==
    /\ qPc = "idle" /\ qNotes = <<>> /\ qBpm = 0 /\ qResult = <<>>

\* Bounds and inputs: one note of every duration 1..MaxQuantDur starting at
\* one of QuantStarts, optionally followed by a second note.
MaxQuantDur == 8200
QuantBpms == {90, 120, 200}
QuantStarts == {0, 1300}
QuantFollowers == {<<>>, <<[gap |-> 700, dur |-> 1125]>>}
QuantInput(start, dur, follower) ==
    <<[NewNote(6300, start) EXCEPT !.endTime = start + dur]>> \o
    [i \in 1..Len(follower) |->
        [NewNote(6500, start + dur + follower[i].gap)
            EXCEPT !.endTime = start + dur + follower[i].gap
                               + follower[i].dur]]

(***************************************************************************)
(* segmentNotes(pitches, confidences, duration, config)                    *)
(***************************************************************************)
\* const frameTime = duration / pitches.length (Infinity or NaN for an empty
\* track, where it is never used).
frameTime == IF Len(pitches) = 0 THEN 0 ELSE trackDuration \div Len(pitches)

\* Math.ceil((config.silenceMs / 1000) / frameTime)
silenceFrames ==
    IF Len(pitches) = 0 THEN 0
    ELSE Ceil(config.silenceMs * UnitsPerSecond, 1000 * frameTime)

\* confidence > 0.5 && pitchHz > 0, for the frame of the current iteration
isActive == confidences[frame + 1] > 5 /\ pitches[frame + 1] > 0

SegSilentFrame_LateClose ==
    /\ sgPc = "loop"
    /\ frame < Len(pitches)
    /\ ~isActive
    /\ silenceCounter' = silenceCounter + 1
    /\ IF currentNote # <<>> /\ silenceCounter' > silenceFrames
         THEN /\ segNotes' = Append(segNotes,
                    [currentNote[1] EXCEPT
                        !.endTime = frame * frameTime
                                    - silenceCounter' * frameTime])
              /\ currentNote' = <<>>
         ELSE UNCHANGED <<segNotes, currentNote>>
    /\ frame' = frame + 1
    /\ UNCHANGED <<sgPc, pitches, confidences, trackDuration, config>>

SegSilentFrame_EndAtSilence ==
    /\ sgPc = "loop"
    /\ frame < Len(pitches)
    /\ ~isActive
    /\ silenceCounter' = silenceCounter + 1
    /\ IF currentNote # <<>> /\ silenceCounter' >= silenceFrames
         THEN /\ segNotes' = Append(segNotes,
                    [currentNote[1] EXCEPT !.endTime = frame * frameTime])
              /\ currentNote' = <<>>
         ELSE UNCHANGED <<segNotes, currentNote>>
    /\ frame' = frame + 1
    /\ UNCHANGED <<sgPc, pitches, confidences, trackDuration, config>>

\* if (!isActive) { silenceCounter++; ... continue; }
SegSilentFrame ==
    /\ sgPc = "loop"
    /\ frame < Len(pitches)
    /\ ~isActive
    /\ silenceCounter' = silenceCounter + 1
    /\ IF currentNote # <<>> /\ silenceCounter' >= silenceFrames
         THEN /\ segNotes' = Append(segNotes,
                    [currentNote[1] EXCEPT
                        !.endTime = frame * frameTime
                                    - silenceCounter' * frameTime])
              /\ currentNote' = <<>>
         ELSE UNCHANGED <<segNotes, currentNote>>
    /\ frame' = frame + 1
    /\ UNCHANGED <<sgPc, pitches, confidences, trackDuration, config>>

\* Active frame, currentNote === null: open a note.
SegOpenNote ==
    /\ sgPc = "loop"
    /\ frame < Len(pitches)
    /\ isActive
    /\ currentNote = <<>>
    /\ silenceCounter' = 0
    /\ currentNote' = <<NewNote(pitches[frame + 1], frame * frameTime)>>
    /\ frame' = frame + 1
    /\ UNCHANGED <<sgPc, pitches, confidences, trackDuration, config, segNotes>>

\* |hzToCents(pitchHz) - hzToCents(currentNote.pitchHz)|
CentsFromCurrent ==
    Abs(hzToCents(pitches[frame + 1]) - hzToCents(currentNote[1].pitchHz))

\* Active frame, open note, cents > config.centsThreshold: close and reopen.
SegSplitNote ==
    /\ sgPc = "loop"
    /\ frame < Len(pitches)
    /\ isActive
    /\ currentNote # <<>>
    /\ CentsFromCurrent > config.centsThreshold
    /\ silenceCounter' = 0
    /\ segNotes' = Append(segNotes,
                          [currentNote[1] EXCEPT !.endTime = frame * frameTime])
    /\ currentNote' = <<NewNote(pitches[frame + 1], frame * frameTime)>>
    /\ frame' = frame + 1
    /\ UNCHANGED <<sgPc, pitches, confidences, trackDuration, config>>

\* Active frame, open note, same pitch: extend.
SegExtendNote ==
    /\ sgPc = "loop"
    /\ frame < Len(pitches)
    /\ isActive
    /\ currentNote # <<>>
    /\ ~(CentsFromCurrent > config.centsThreshold)
    /\ silenceCounter' = 0
    /\ currentNote' = <<[currentNote[1] EXCEPT !.endTime = frame * frameTime]>>
    /\ frame' = frame + 1
    /\ UNCHANGED <<sgPc, pitches, confidences, trackDuration, config, segNotes>>

SegReturn_KeepEnd ==
    /\ sgPc = "loop"
    /\ frame = Len(pitches)
    /\ segNotes' = segNotes \o currentNote
    /\ sgPc' = "done"
    /\ UNCHANGED <<pitches, confidences, trackDuration, config, frame,
                   currentNote, silenceCounter>>

\* After the loop: close the last note and return notes.
SegReturn ==
    /\ sgPc = "loop"
    /\ frame = Len(pitches)
    /\ IF currentNote # <<>>
         THEN segNotes' = Append(segNotes,
                    [currentNote[1] EXCEPT !.endTime = trackDuration])
         ELSE UNCHANGED segNotes
    /\ sgPc' = "done"
    /\ UNCHANGED <<pitches, confidences, trackDuration, config, frame,
                   currentNote, silenceCounter>>

SegIdle ==
    /\ sgPc = "idle" /\ pitches = <<>> /\ confidences = <<>>
    /\ trackDuration = 0 /\ config = [centsThreshold |-> 0, silenceMs |-> 0]
    /\ frame = 0 /\ currentNote = <<>> /\ silenceCounter = 0 /\ segNotes = <<>>

\* Bounds and inputs: tracks of up to MaxFrames frames of FrameUnits each;
\* a frame is unvoiced, voiced at confidence 0.5, or voiced with confidence 1
\* at one of two pitches 60 cents apart.
MaxFrames == 5
FrameUnits == 100 * 6
FrameKinds ==
    {[hz |-> 0, conf |-> 10], [hz |-> 6300, conf |-> 5],
     [hz |-> 6300, conf |-> 10], [hz |-> 6360, conf |-> 10]}
SegConfigs ==
    {[centsThreshold |-> c, silenceMs |-> s] : c \in {50, 80}, s \in {100, 150, 250}}

(***************************************************************************)
(* transcribe(audioBuffer, options)                                        *)
(*                                                                         *)
(* The pitch tracker is external: audioFeatures is whatever it returned.   *)
(* medianFilter stores its result in a Float32Array; the model keeps the   *)
(* pitches as they are, the rounding being far below one cent.             *)
(***************************************************************************)
\* window.sort((a, b) => a - b)
RECURSIVE SortAscending(_)
SortAscending(window) ==
    IF window = <<>> THEN <<>>
    ELSE
        LET k == CHOOSE i \in 1..Len(window) :
                    \A j \in 1..Len(window) : window[i] <= window[j]
        IN  <<window[k]>>
            \o SortAscending(SubSeq(window, 1, k - 1)
                             \o SubSeq(window, k + 1, Len(window)))

\* The frame i counts from 1 here and from 0 in the code.
medianFilter(data, windowSize) ==
    LET halfWindow == windowSize \div 2
    IN  ArrayOf([i \in 1..Len(data) |->
            LET start == Max2(0, (i - 1) - halfWindow)
                end == Min2(Len(data), (i - 1) + halfWindow + 1)
                window == SelectSeq(SubSeq(data, start + 1, end),
                                    LAMBDA x : x > 0)
            IN  IF Len(window) > 0
                  THEN SortAscending(window)[(Len(window) \div 2) + 1]
                  ELSE 0])

\* The config of lines 50-56.
minNoteDuration == 80
TranscribeConfig(opts) ==
    [centsThreshold |-> Nullish(opts.centsThreshold, 80),
     silenceMs |-> Nullish(opts.silenceMs, 150),
     smoothingFrames |-> Nullish(opts.smoothingFrames, 5),
     bpm |-> Nullish(opts.bpm, 90),
     minNoteDuration |-> minNoteDuration]

\* rawNotes.filter(n => (n.endTime - n.startTime) * 1000 >= minNoteDuration)
FilterShort(rawNotes, cfg) ==
    SelectSeq(rawNotes, LAMBDA n :
        (n.endTime - n.startTime) * 1000
            >= cfg.minNoteDuration * UnitsPerSecond)

\* getAudioFeatures rejects: the catch of lines 89-92 logs and rethrows.
TranscribeRethrow ==
    /\ tcPc = "call"
    /\ tcPc' = "thrown"
    /\ UNCHANGED <<audioFeatures, audioDuration, tcOptions,
                   transcribedSequence, segVars>>

\* Lines 59-68: smooth the pitches and enter segmentNotes.
TranscribeSegment ==
    /\ tcPc = "call"
    /\ LET cfg == TranscribeConfig(tcOptions)
       IN  /\ pitches' = medianFilter(audioFeatures.f0_hz, cfg.smoothingFrames)
           /\ config' = [centsThreshold |-> cfg.centsThreshold,
                         silenceMs |-> cfg.silenceMs]
    /\ confidences' = audioFeatures.confidences
    /\ trackDuration' = audioDuration
    /\ frame' = 0 /\ currentNote' = <<>> /\ silenceCounter' = 0
    /\ segNotes' = <<>>
    /\ sgPc' = "loop"
    /\ tcPc' = "segmenting"
    /\ UNCHANGED <<audioFeatures, audioDuration, tcOptions,
                   transcribedSequence>>

\* Lines 70-87, once segmentNotes has returned rawNotes.
TranscribeReturn ==
    /\ tcPc = "segmenting"
    /\ sgPc = "done"
    /\ LET cfg == TranscribeConfig(tcOptions)
           filteredNotes == FilterShort(segNotes, cfg)
       IN  transcribedSequence' =
              [notes |-> quantizeNotes(filteredNotes, cfg.bpm),
               totalTime |-> audioDuration,
               qpm |-> cfg.bpm]
    /\ tcPc' = "returned"
    /\ UNCHANGED <<audioFeatures, audioDuration, tcOptions, segVars>>

NoSequence == [notes |-> <<>>, totalTime |-> 0, qpm |-> 0]
NoTranscribeOptions ==
    [centsThreshold |-> <<>>, silenceMs |-> <<>>, smoothingFrames |-> <<>>,
     bpm |-> <<>>]

TranscribeIdle ==
    /\ tcPc = "idle"
    /\ audioFeatures = [f0_hz |-> <<>>, confidences |-> <<>>]
    /\ audioDuration = 0
    /\ tcOptions = NoTranscribeOptions
    /\ transcribedSequence = NoSequence

\* The page as it loads: nothing recorded, no click made.
RecorderIdle ==
    /\ isRecording = FALSE
    /\ audioBuffer = <<>>
    /\ mediaRecorder = <<>>
    /\ recorders = <<>>
    /\ handlers = <<>>

(***************************************************************************)
(* FugueGenerator: helpers of generate()                                   *)
(*                                                                         *)
(* Beats are whole numbers.  Velocities are kept in hundredths, because    *)
(* the free counterpoint and the episode draw fractional ones.             *)
(* Math.random() returns randomTape[k] / 100 on its k-th call (the tape    *)
(* is read cyclically); an operator that draws takes the number of calls   *)
(* made so far and returns it advanced.                                    *)
(***************************************************************************)
\* a % b of JavaScript: the sign of the result is the sign of a.
JsRem(a, b) == IF a >= 0 THEN a % b ELSE -((-a) % b)

Random_Stateful(rnd, pos) == rnd[((pos + randomPos) % Len(rnd)) + 1]

\* The value of the Math.random() call made after pos earlier calls, when
\* the calls return the values of rnd in turn.
Random(rnd, pos) == rnd[(pos % Len(rnd)) + 1]

RECURSIVE MaxEndBeat(_)
MaxEndBeat(s) ==
    IF Len(s) = 1 THEN s[1].endBeat
    ELSE Max2(Head(s).endBeat, MaxEndBeat(Tail(s)))

RECURSIVE MinStartBeat(_)
MinStartBeat(s) ==
    IF Len(s) = 1 THEN s[1].startBeat
    ELSE Min2(Head(s).startBeat, MinStartBeat(Tail(s)))

getSequenceDuration(sequence) ==
    IF Len(sequence) = 0 THEN 0
    ELSE MaxEndBeat(sequence) - MinStartBeat(sequence)

extractAndQuantizeSubject_AbsoluteStart(notes, bd) ==
    ArrayOf([i \in 1..Len(notes) |->
        LET n == notes[i]
            startBeat == Round(n.startTime, bd)
            durationBeats ==
                Max2(1, Round(n.endTime - n.startTime, bd))
        IN  [pitch |-> n.pitch, startBeat |-> startBeat,
             endBeat |-> startBeat + durationBeats,
             velocity |-> 100 * OrDefault(n.velocity, 80)]])

extractAndQuantizeSubject(notes, bd) ==
    LET startTime == notes[1].startTime
    IN  ArrayOf([i \in 1..Len(notes) |->
            LET n == notes[i]
                startBeat == Round(n.startTime - startTime, bd)
                durationBeats ==
                    Max2(1, Round(n.endTime - n.startTime, bd))
            IN  [pitch |-> n.pitch, startBeat |-> startBeat,
                 endBeat |-> startBeat + durationBeats,
                 velocity |-> 100 * OrDefault(n.velocity, 80)]])

generateAnswer(subj) ==
    ArrayOf([i \in 1..Len(subj) |-> [subj[i] EXCEPT !.pitch = @ + 7]])

generateCountersubject_Truncated(subj) ==
    IF Len(subj) < 2 THEN <<>>
    ELSE LET sum == SumPitch(subj)
         IN  ArrayOf([i \in 1..Len(subj) |->
                LET csPitch == Floor(17 * sum - 7 * subj[i].pitch * Len(subj),
                                     10 * Len(subj))
                IN  [pitch |-> clampPitch(csPitch, CountersubjectRange.min,
                                          CountersubjectRange.max),
                     startBeat |-> subj[i].startBeat,
                     endBeat |-> subj[i].endBeat,
                     velocity |-> 100 * 70]])

\* csPitch = Math.round(avgPitch - (pitch - avgPitch) * 0.7)
\*         = Math.round((17 * sum - 7 * pitch * length) / (10 * length))
generateCountersubject(subj) ==
    IF Len(subj) < 2 THEN <<>>
    ELSE LET sum == SumPitch(subj)
         IN  ArrayOf([i \in 1..Len(subj) |->
                LET csPitch == Round(17 * sum - 7 * subj[i].pitch * Len(subj),
                                     10 * Len(subj))
                IN  [pitch |-> clampPitch(csPitch, CountersubjectRange.min,
                                          CountersubjectRange.max),
                     startBeat |-> subj[i].startBeat,
                     endBeat |-> subj[i].endBeat,
                     velocity |-> 100 * 70]])

\* The theme.forEach of generateFreeCounterpoint from theme[i] on (i counts
\* from 1, so the code's i % 2 === 0 is i odd here).
RECURSIVE FreeCounterpointLoop(_, _, _, _, _, _, _, _)
FreeCounterpointLoop(rnd, theme, offsetBeat, complexity, i, lastPitch, result, pos) ==
    IF i > Len(theme) THEN [notes |-> result, pos |-> pos]
    ELSE
        LET n == theme[i]
            forced == (i - 1) % 2 = 0
            \* Math.random() < prob, drawn only when the note is not forced
            taken == forced \/ Random(rnd, pos) < complexity
            pos1 == IF forced THEN pos ELSE pos + 1
            interval == Floor(Random(rnd, pos1) * 9, 100) - 4
            tonic == theme[1].pitch
            raw == lastPitch + interval
            nextPitch == IF Abs(raw - tonic) > 15
                           THEN raw + (IF raw > tonic THEN -3 ELSE 3)
                           ELSE raw
            note == [pitch |-> nextPitch,
                     startBeat |-> n.startBeat + offsetBeat,
                     endBeat |-> n.endBeat + offsetBeat,
                     velocity |-> 100 * 60 + Random(rnd, pos1 + 1) * 15]
        IN  IF taken
              THEN FreeCounterpointLoop(rnd, theme, offsetBeat, complexity, i + 1,
                                        nextPitch, Append(result, note),
                                        pos1 + 2)
              ELSE FreeCounterpointLoop(rnd, theme, offsetBeat, complexity, i + 1,
                                        lastPitch, result, pos1)

\* range is <<>> for null and <<r>> for a range r.
generateFreeCounterpoint(rnd, theme, offsetBeat, range, opts, pos) ==
    IF Len(theme) = 0 THEN [notes |-> <<>>, pos |-> pos]
    ELSE
        LET loop == FreeCounterpointLoop(rnd, theme, offsetBeat, opts.complexity,
                                         1, theme[1].pitch, <<>>, pos)
        IN  IF range # <<>>
              THEN [notes |-> transposeToRange(loop.notes, range[1]),
                    pos |-> loop.pos]
              ELSE loop

\* subject.slice(0, Math.min(4, subject.length))
Slice4(subj) == SubSeq(subj, 1, Min2(4, Len(subj)))

WithVoice(n, startBeat, endBeat, voice) ==
    [pitch |-> n.pitch, startBeat |-> startBeat, endBeat |-> endBeat,
     velocity |-> n.velocity, voice |-> voice]

\* sequence.forEach(n => notes.push({...n, startBeat + beat, endBeat + beat,
\* voice}))
Entry(sequence, beat, voice) ==
    ArrayOf([i \in 1..Len(sequence) |->
                WithVoice(sequence[i], sequence[i].startBeat + beat,
                          sequence[i].endBeat + beat, voice)])

\* notes.filter(n => n.voice === v)
VoiceNotes(notes, v) == SelectSeq(notes, LAMBDA n : n.voice = v)

(***************************************************************************)
(* generateEpisode(subject, startBeat)                                     *)
(***************************************************************************)
\* const density = this.options?.density || 50
EpisodeDensity(opts) == OrDefault(opts.density, 50)
NumRepetitions(opts) == Max2(3, Floor(EpisodeDensity(opts), 8))
NumVoices(opts) ==
    IF EpisodeDensity(opts) > 75 THEN 3
    ELSE IF EpisodeDensity(opts) > 25 THEN 2 ELSE 1

\* The body of the inner loop for repetition i and voice slot v.  base is the
\* number of Math.random() calls made before it: the motif.map draws one
\* value per note, then the forEach draws one velocity per note.
EpisodeEntry(rnd, motif, startBeat, direction, i, v, base) ==
    LET trans == i * 2 * direction
        beatOffset == startBeat + (i * 4)
        voice == (i + v) % 4
        moved == ArrayOf([j \in 1..Len(motif) |->
                    [motif[j] EXCEPT
                        !.pitch = @ + trans
                            + (IF Random(rnd, base + j - 1) > 90 THEN 1 ELSE 0)]])
        transposed == transposeToRange(moved, VoiceRanges[voice + 1])
    IN  ArrayOf([j \in 1..Len(motif) |->
            [pitch |-> transposed[j].pitch,
             startBeat |-> transposed[j].startBeat + beatOffset,
             endBeat |-> transposed[j].endBeat + beatOffset,
             voice |-> voice,
             velocity |-> 100 * 55 + Random(rnd, base + Len(motif) + j - 1) * 20]])

\* The two nested loops, from the k-th (i, v) pair on; k = i * numVoices + v.
RECURSIVE EpisodeLoop(_, _, _, _, _, _, _, _)
EpisodeLoop(rnd, motif, startBeat, direction, opts, k, notes, pos) ==
    IF k >= NumRepetitions(opts) * NumVoices(opts) THEN notes
    ELSE EpisodeLoop(rnd, motif, startBeat, direction, opts, k + 1,
                     notes \o EpisodeEntry(rnd, motif, startBeat, direction,
                                           k \div NumVoices(opts),
                                           k % NumVoices(opts), pos),
                     pos + 2 * Len(motif))

generateEpisode(rnd, subj, startBeat, opts, pos) ==
    LET motif == Slice4(subj)
        direction == IF Random(rnd, pos) > 50 THEN 1 ELSE -1
    IN  [notes |-> EpisodeLoop(rnd, motif, startBeat, direction, opts, 0, <<>>,
                               pos + 1),
         endBeat |-> startBeat + (NumRepetitions(opts) * 4),
         pos |-> pos + 1 + NumRepetitions(opts) * NumVoices(opts)
                            * 2 * Len(motif)]

(***************************************************************************)
(* buildExposition(subject, answer, countersubject)                        *)
(***************************************************************************)
EntrySpacing_NoRounding(subj) == Max2(8, getSequenceDuration(subj))

EntrySpacing(subj) == Max2(8, Ceil(getSequenceDuration(subj), 4) * 4)

BridgeNotes_KeepAtEnd(bridge, from, until, voice) ==
    LET kept == SelectSeq(bridge, LAMBDA n :
                    n.startBeat >= from /\ n.startBeat <= until)
    IN  ArrayOf([j \in 1..Len(kept) |->
                    WithVoice(kept[j], kept[j].startBeat,
                              Min2(kept[j].endBeat, until), voice)])

\* bridge.forEach(n => { if (n.startBeat >= from && n.startBeat < until)
\*     notes.push({...n, voice, endBeat: Math.min(n.endBeat, until)}) })
BridgeNotes(bridge, from, until, voice) ==
    LET kept == SelectSeq(bridge, LAMBDA n :
                    n.startBeat >= from /\ n.startBeat < until)
    IN  ArrayOf([j \in 1..Len(kept) |->
                    WithVoice(kept[j], kept[j].startBeat,
                              Min2(kept[j].endBeat, until), voice)])

\* [0, 1, 2, 3].forEach(v => ...) of the extended exposition, from voice v on.
RECURSIVE ExpositionBridges(_, _, _, _, _, _, _)
ExpositionBridges(rnd, subj, expoEndBeat, opts, v, notes, pos) ==
    IF v > 3 THEN [notes |-> notes, pos |-> pos]
    ELSE
        LET voiceNotes == VoiceNotes(notes, v)
            lastNote == voiceNotes[Len(voiceNotes)]
        IN  IF Len(voiceNotes) > 0 /\ lastNote.endBeat < expoEndBeat
              THEN
                LET bridge == generateFreeCounterpoint(rnd, subj,
                                  lastNote.endBeat - subj[1].startBeat,
                                  <<VoiceRanges[v + 1]>>, opts, pos)
                IN  ExpositionBridges(rnd, subj, expoEndBeat, opts, v + 1,
                        notes \o BridgeNotes(bridge.notes, lastNote.endBeat,
                                             expoEndBeat, v),
                        bridge.pos)
              ELSE ExpositionBridges(rnd, subj, expoEndBeat, opts, v + 1, notes, pos)

buildExposition(rnd, subj, ans, cs, opts, pos) ==
    LET subjectDuration == getSequenceDuration(subj)
        entrySpacing == EntrySpacing(subj)
        sopranoSubject == transposeToRange(subj, VoiceRanges[1])
        altoAnswer == transposeToRange(ans, VoiceRanges[2])
        tenorSubject == transposeToRange(subj, VoiceRanges[3])
        bassAnswer == transposeToRange(ans, VoiceRanges[4])
        sopranoCS == transposeToRange(cs, VoiceRanges[1])
        altoCS == transposeToRange(cs, VoiceRanges[2])
        tenorCS == transposeToRange(cs, VoiceRanges[3])
        entry1Beat == 0
        entry2Beat == entrySpacing
        entry3Beat == entrySpacing * 2
        entry4Beat == entrySpacing * 3
        free3 == generateFreeCounterpoint(rnd, sopranoSubject, entry3Beat, <<>>,
                                          opts, pos)
        free4alto == generateFreeCounterpoint(rnd, altoAnswer, entry4Beat, <<>>,
                                              opts, free3.pos)
        free4soprano == generateFreeCounterpoint(rnd, sopranoSubject, entry4Beat,
                                                 <<>>, opts, free4alto.pos)
        entries ==
            Entry(sopranoSubject, entry1Beat, 0)
            \o Entry(altoAnswer, entry2Beat, 1)
            \o Entry(sopranoCS, entry2Beat, 0)
            \o Entry(tenorSubject, entry3Beat, 2)
            \o Entry(altoCS, entry3Beat, 1)
            \o Entry(free3.notes, 0, 0)
            \o Entry(bassAnswer, entry4Beat, 3)
            \o Entry(tenorCS, entry4Beat, 2)
            \o Entry(free4alto.notes, 0, 1)
            \o Entry(free4soprano.notes, 0, 0)
        expoEndBeat == entry4Beat + subjectDuration
        bridged == ExpositionBridges(rnd, subj, expoEndBeat, opts, 0, entries,
                                     free4soprano.pos)
        episode == generateEpisode(rnd, subj, expoEndBeat, opts, bridged.pos)
    IN  [notes |-> bridged.notes \o episode.notes,
         endBeat |-> episode.endBeat,
         pos |-> episode.pos]

(***************************************************************************)
(* buildCoda(subject, startBeat)                                           *)
(***************************************************************************)
StrettoInterval(opts) == IF opts.complexity > 50 THEN 2 ELSE 4

\* Math.ceil((maxEndBeat + parseInt(codaLength || 8) / 2) / beatsPerMeasure)
\*   * beatsPerMeasure, with beatsPerMeasure = 8
CadenceBeat(maxEndBeat, opts) ==
    Ceil(2 * maxEndBeat + OrDefault(opts.codaLength, 8), 2 * 8) * 8

\* voices.forEach((v, i) => ...) from voice i on.
RECURSIVE CodaStretto(_, _, _, _, _, _, _, _)
CodaStretto(rnd, shortSubject, startBeat, opts, i, notes, maxEndBeat, pos) ==
    IF i > 3 THEN [notes |-> notes, maxEndBeat |-> maxEndBeat, pos |-> pos]
    ELSE
        LET entryBeat == startBeat + (i * StrettoInterval(opts))
            transposed == transposeToRange(shortSubject, VoiceRanges[i + 1])
            entry == Entry(transposed, entryBeat, i)
            newMax == Max2(maxEndBeat, MaxEndBeat(entry))
            lastEnd == entryBeat + getSequenceDuration(shortSubject)
            targetCadenceBeat == CadenceBeat(newMax, opts)
        IN  IF lastEnd < targetCadenceBeat
              THEN
                LET bridge == generateFreeCounterpoint(rnd, shortSubject,
                                  lastEnd - shortSubject[1].startBeat,
                                  <<VoiceRanges[i + 1]>>, opts, pos)
                IN  CodaStretto(rnd, shortSubject, startBeat, opts, i + 1,
                        notes \o entry
                              \o BridgeNotes(bridge.notes, lastEnd,
                                             targetCadenceBeat, i),
                        newMax, bridge.pos)
              ELSE CodaStretto(rnd, shortSubject, startBeat, opts, i + 1,
                               notes \o entry, newMax, pos)

CadencePitch_KeepLast(lastPitch, targetPitch, range) ==
    FoldDown(FoldUp(lastPitch, range.min), range.max)

\* The pitch of a voice's final chord note: the target class nearest to the
\* last pitch the voice played, folded into the voice's range.
CadencePitch(lastPitch, targetPitch, range) ==
    LET currentClass == JsRem(lastPitch, 12)
        diff0 == targetPitch - currentClass
        diff1 == IF diff0 > 6 THEN diff0 - 12 ELSE diff0
        diff == IF diff1 < -6 THEN diff1 + 12 ELSE diff1
    IN  FoldDown(FoldUp(lastPitch + diff, range.min), range.max)

\* const tonicClass = (subject[0]?.pitch || 60) % 12
TonicClass(subj) == JsRem(OrDefault(subj[1].pitch, 60), 12)

\* The targetPitch of voice 0..3 in finalChord.
ChordTarget(subj, voice) ==
    IF voice = 1 THEN JsRem(TonicClass(subj) + 4, 12)
    ELSE IF voice = 2 THEN JsRem(TonicClass(subj) + 7, 12)
    ELSE TonicClass(subj)

\* finalChord.forEach(chord => ...): every voice has notes in the coda (its
\* stretto entry), so lastNote is always defined.
FinalChord(subj, notes, cadenceBeat) ==
    ArrayOf([c \in 1..4 |->
        LET voiceNotes == VoiceNotes(notes, c - 1)
            lastNote == voiceNotes[Len(voiceNotes)]
        IN  [pitch |-> CadencePitch(lastNote.pitch, ChordTarget(subj, c - 1),
                                    VoiceRanges[c]),
             startBeat |-> cadenceBeat,
             endBeat |-> cadenceBeat + 4,
             velocity |-> 100 * 100,
             voice |-> c - 1]])

buildCoda_EndAtCadence(rnd, subj, startBeat, opts, pos) ==
    LET stretto == CodaStretto(rnd, Slice4(subj), startBeat, opts, 0, <<>>,
                               startBeat, pos)
        cadenceBeat == CadenceBeat(stretto.maxEndBeat, opts)
    IN  [notes |-> stretto.notes \o FinalChord(subj, stretto.notes, cadenceBeat),
         endBeat |-> cadenceBeat,
         pos |-> stretto.pos]

buildCoda(rnd, subj, startBeat, opts, pos) ==
    LET stretto == CodaStretto(rnd, Slice4(subj), startBeat, opts, 0, <<>>,
                               startBeat, pos)
        cadenceBeat == CadenceBeat(stretto.maxEndBeat, opts)
    IN  [notes |-> stretto.notes \o FinalChord(subj, stretto.notes, cadenceBeat),
         endBeat |-> cadenceBeat + 4,
         pos |-> stretto.pos]

(***************************************************************************)
(* generate(inputSequence, options)                                        *)
(***************************************************************************)
\* !inputSequence || !inputSequence.notes || inputSequence.notes.length === 0
NoValidNotes(sequence) ==
    \/ sequence.kind = "null"
    \/ sequence.kind = "noNotes"
    \/ Len(sequence.notes) = 0

\* The options of lines 35-39: a field the caller left out takes its default.
OptionsOf(opts) ==
    [density |-> Nullish(opts.density, 50),
     complexity |-> Nullish(opts.complexity, 70),
     codaLength |-> Nullish(opts.codaLength, 8)]

\* The throw placed after the assignments of lines 35-44.
GenerateThrow_AfterSetup ==
    /\ gPc = "call"
    /\ NoValidNotes(inputSequence)
    /\ gPc' = "thrown"
    /\ options' = <<OptionsOf(argOptions)>>
    /\ beatDuration' =
          (60 * UnitsPerSecond) \div (OrDefault(inputSequence.qpm, 120) * 2)
    /\ UNCHANGED <<inputSequence, argOptions, subject,
                   answer, countersubject, exposition, coda, fugue,
                   randomTape, randomPos>>

\* if (...) throw new Error("No hay notas validas ...")
GenerateThrow ==
    /\ gPc = "call"
    /\ NoValidNotes(inputSequence)
    /\ gPc' = "thrown"
    /\ UNCHANGED <<options, beatDuration, inputSequence, argOptions, subject,
                   answer, countersubject, exposition, coda, fugue,
                   randomTape, randomPos>>

GenerateBegin_InPlace ==
    /\ gPc = "call"
    /\ ~NoValidNotes(inputSequence)
    /\ options' = <<OptionsOf(argOptions)>>
    /\ beatDuration' =
          (60 * UnitsPerSecond) \div (OrDefault(inputSequence.qpm, 120) * 2)
    /\ subject' = extractAndQuantizeSubject(inputSequence.notes, beatDuration')
    /\ inputSequence' =
          [inputSequence EXCEPT !.notes =
              ArrayOf([i \in 1..Len(subject') |->
                  [@[i] EXCEPT !.velocity = subject'[i].velocity \div 100,
                               !.startTime = subject'[i].startBeat,
                               !.endTime = subject'[i].endBeat]])]
    /\ answer' = generateAnswer(subject')
    /\ countersubject' = generateCountersubject(subject')
    /\ gPc' = "begun"
    /\ UNCHANGED <<argOptions, exposition, coda, fugue, randomTape, randomPos>>

GenerateBegin_KeepOptions ==
    /\ gPc = "call"
    /\ ~NoValidNotes(inputSequence)
    /\ options' = IF options # <<>> THEN options
                  ELSE <<OptionsOf(argOptions)>>
    /\ beatDuration' =
          (60 * UnitsPerSecond) \div (OrDefault(inputSequence.qpm, 120) * 2)
    /\ subject' = extractAndQuantizeSubject(inputSequence.notes, beatDuration')
    /\ answer' = generateAnswer(subject')
    /\ countersubject' = generateCountersubject(subject')
    /\ gPc' = "begun"
    /\ UNCHANGED <<inputSequence, argOptions, exposition, coda, fugue,
                   randomTape, randomPos>>

\* Lines 35-56: options, beatDuration, subject, answer and countersubject.
GenerateBegin ==
    /\ gPc = "call"
    /\ ~NoValidNotes(inputSequence)
    /\ options' = <<OptionsOf(argOptions)>>
    /\ beatDuration' =
          (60 * UnitsPerSecond) \div (OrDefault(inputSequence.qpm, 120) * 2)
    /\ subject' = extractAndQuantizeSubject(inputSequence.notes, beatDuration')
    /\ answer' = generateAnswer(subject')
    /\ countersubject' = generateCountersubject(subject')
    /\ gPc' = "begun"
    /\ UNCHANGED <<inputSequence, argOptions, exposition, coda, fugue,
                   randomTape, randomPos>>

BuildExposition ==
    /\ gPc = "begun"
    /\ LET built == buildExposition(randomTape, subject, answer, countersubject,
                                    options[1], randomPos)
       IN  /\ exposition' = [notes |-> built.notes, endBeat |-> built.endBeat]
           /\ randomPos' = built.pos
    /\ gPc' = "exposed"
    /\ UNCHANGED <<options, beatDuration, inputSequence, argOptions, subject,
                   answer, countersubject, coda, fugue, randomTape>>

BuildCoda ==
    /\ gPc = "exposed"
    /\ LET built == buildCoda(randomTape, subject, exposition.endBeat, options[1],
                              randomPos)
       IN  /\ coda' = [notes |-> built.notes, endBeat |-> built.endBeat]
           /\ randomPos' = built.pos
    /\ gPc' = "coda"
    /\ UNCHANGED <<options, beatDuration, inputSequence, argOptions, subject,
                   answer, countersubject, exposition, fugue, randomTape>>

\* Lines 64-95: clamp every pitch into its voice's range, convert beats to
\* time and return the NoteSequence.
OutputNote_OneInstrument(n, bd) ==
    [pitch |-> clampPitch(n.pitch, VoiceRanges[n.voice + 1].min,
                          VoiceRanges[n.voice + 1].max),
     startTime |-> n.startBeat * bd,
     endTime |-> n.endBeat * bd,
     velocity |-> OrDefault(n.velocity, 100 * 80),
     instrument |-> 0,
     voice |-> n.voice]

OutputNote_NoClamp(n, bd) ==
    [pitch |-> n.pitch,
     startTime |-> n.startBeat * bd,
     endTime |-> n.endBeat * bd,
     velocity |-> OrDefault(n.velocity, 100 * 80),
     instrument |-> n.voice,
     voice |-> n.voice]

OutputNote(n, bd) ==
    [pitch |-> clampPitch(n.pitch, VoiceRanges[n.voice + 1].min,
                          VoiceRanges[n.voice + 1].max),
     startTime |-> n.startBeat * bd,
     endTime |-> n.endBeat * bd,
     velocity |-> OrDefault(n.velocity, 100 * 80),
     instrument |-> n.voice,
     voice |-> n.voice]

GenerateReturn ==
    /\ gPc = "coda"
    /\ LET all == exposition.notes \o coda.notes
       IN  fugue' = [notes |-> ArrayOf([i \in 1..Len(all) |->
                                   OutputNote(all[i], beatDuration)]),
                     totalTime |-> coda.endBeat * beatDuration,
                     qpm |-> OrDefault(inputSequence.qpm, 120)]
    /\ gPc' = "done"
    /\ UNCHANGED <<options, beatDuration, inputSequence, argOptions, subject,
                   answer, countersubject, exposition, coda, randomTape,
                   randomPos>>

NoSection == [notes |-> <<>>, endBeat |-> 0]
NoFugue == [notes |-> <<>>, totalTime |-> 0, qpm |-> 0]
NoOptions == [density |-> <<>>, complexity |-> <<>>, codaLength |-> <<>>]

GenIdle ==
    /\ gPc = "idle" /\ options = <<>> /\ beatDuration = 0
    /\ inputSequence = [kind |-> "null", notes |-> <<>>, qpm |-> 0]
    /\ argOptions = NoOptions
    /\ subject = <<>> /\ answer = <<>> /\ countersubject = <<>>
    /\ exposition = NoSection /\ coda = NoSection /\ fugue = NoFugue
    /\ randomTape = <<>> /\ randomPos = 0
    /\ calledOn = [options |-> <<>>, beatDuration |-> 0]

(***************************************************************************)
(* exportMidi(noteSequence) of main.js                                     *)
(*                                                                         *)
(* The track is modelled by its note events, each a record of the bytes    *)
(* writeVarLen gives the delta time, the status byte and the two data      *)
(* bytes.  The header, the meta events and the program change carry no     *)
(* note and are left out.  The reader is not part of the repository: it is *)
(* the re-reading the round-trip property speaks of, a Standard MIDI File  *)
(* reader that ends, at a note-off, a sounding note of the same channel    *)
(* and pitch, the oldest (rdPolicy "fifo") or the newest ("lifo").         *)
(***************************************************************************)
ticksPerBeat == 480

\* Math.round((time / beatDuration) * ticksPerBeat), beatDuration = 60 / bpm
TickOf(time, bpm) == Round(time * bpm * ticksPerBeat, 60 * UnitsPerSecond)

\* The bytes unshifted by the while loop of writeVarLen, for value >>= 7.
RECURSIVE VarLenHigh(_)
VarLenHigh(value) ==
    IF value = 0 THEN <<>>
    ELSE VarLenHigh(value \div 128) \o <<(value % 128) + 128>>

writeVarLen(value) == VarLenHigh(value \div 128) \o <<value % 128>>

\* The two events the forEach pushes for a note.
NoteEvents(note, bpm) ==
    <<[tick |-> TickOf(note.startTime, bpm), type |-> "noteOn",
       pitch |-> note.pitch, velocity |-> OrDefault(note.velocity, 80),
       channel |-> 0],
      [tick |-> TickOf(note.endTime, bpm), type |-> "noteOff",
       pitch |-> note.pitch, velocity |-> 0, channel |-> 0]>>

RECURSIVE CollectEvents(_, _)
CollectEvents(notes, bpm) ==
    IF notes = <<>> THEN <<>>
    ELSE NoteEvents(Head(notes), bpm) \o CollectEvents(Tail(notes), bpm)

\* The comparator: a.tick - b.tick || (a.type === 'noteOff' ? -1 : 1)
Compare(a, b) ==
    IF a.tick - b.tick # 0 THEN a.tick - b.tick
    ELSE IF a.type = "noteOff" THEN -1 ELSE 1

\* The comparator puts a before b whichever way the two are passed.  For two
\* events of one tick and one type it contradicts itself, and the order sort
\* leaves them in is the implementation's.
GoesFirst(a, b) == Compare(a, b) < 0 /\ Compare(b, a) > 0

InsertAt(s, k, e) == SubSeq(s, 1, k) \o <<e>> \o SubSeq(s, k + 1, Len(s))

\* The arrays events.sort may leave: every arrangement of es in which no
\* event comes after one the comparator puts it before.
RECURSIVE SortOutcomes(_)
SortOutcomes(es) ==
    IF es = <<>> THEN {<<>>}
    ELSE
        LET e == es[Len(es)]
            Places(o) ==
                {k \in 0..Len(o) :
                    /\ \A i \in 1..k : ~GoesFirst(e, o[i])
                    /\ \A i \in (k + 1)..Len(o) : ~GoesFirst(o[i], e)}
        IN  UNION {{InsertAt(o, k, e) : k \in Places(o)} :
                     o \in SortOutcomes(SubSeq(es, 1, Len(es) - 1))}

\* events.forEach of lines 126-136, from the event after one at lastTick.
RECURSIVE WriteEvents(_, _)
WriteEvents(es, lastTick) ==
    IF es = <<>> THEN <<>>
    ELSE
        LET event == Head(es)
            delta == event.tick - lastTick
        IN  <<[delta |-> writeVarLen(delta),
               status |-> (IF event.type = "noteOn" THEN 144 ELSE 128)
                             + event.channel,
               data1 |-> event.pitch,
               data2 |-> IF event.type = "noteOn" THEN event.velocity ELSE 0]>>
            \o WriteEvents(Tail(es), event.tick)

\* if (!noteSequence || !noteSequence.notes || notes.length === 0) return
ExportNothing ==
    /\ mPc = "call"
    /\ Len(noteSequence.notes) = 0
    /\ mPc' = "nothing"
    /\ UNCHANGED <<noteSequence, events, trackData, rdPolicy, rdPos, rdTick,
                   sounding, recovered>>

ExportMidi ==
    /\ mPc = "call"
    /\ Len(noteSequence.notes) # 0
    /\ LET bpm == OrDefault(noteSequence.qpm, 120)
       IN  \E sorted \in SortOutcomes(CollectEvents(noteSequence.notes, bpm)) :
              /\ events' = sorted
              /\ trackData' = WriteEvents(sorted, 0)
    /\ mPc' = "written"
    /\ UNCHANGED <<noteSequence, rdPolicy, rdPos, rdTick, sounding, recovered>>

\* The value of a variable-length quantity: seven bits a byte, high first.
RECURSIVE ReadVarLenFrom(_, _)
ReadVarLenFrom(bytes, acc) ==
    IF bytes = <<>> THEN acc
    ELSE ReadVarLenFrom(Tail(bytes), acc * 128 + (Head(bytes) % 128))

readVarLen(bytes) == ReadVarLenFrom(bytes, 0)

\* The positions in sounding of the notes a note-off of this channel and
\* pitch may end.
Sounding(channel, pitch) ==
    {i \in 1..Len(sounding) :
        sounding[i].channel = channel /\ sounding[i].pitch = pitch}

Oldest(S) == CHOOSE i \in S : \A j \in S : i <= j
Newest(S) == CHOOSE i \in S : \A j \in S : i >= j

ReadNoteOn ==
    /\ mPc = "written"
    /\ rdPos <= Len(trackData)
    /\ trackData[rdPos].status \div 16 = 9
    /\ LET event == trackData[rdPos]
           tick == rdTick + readVarLen(event.delta)
       IN  /\ rdTick' = tick
           /\ sounding' = Append(sounding,
                                 [channel |-> event.status % 16,
                                  pitch |-> event.data1, tick |-> tick])
    /\ rdPos' = rdPos + 1
    /\ UNCHANGED <<mPc, noteSequence, events, trackData, rdPolicy, recovered>>

ReadNoteOff ==
    /\ mPc = "written"
    /\ rdPos <= Len(trackData)
    /\ trackData[rdPos].status \div 16 = 8
    /\ LET event == trackData[rdPos]
           tick == rdTick + readVarLen(event.delta)
           open == Sounding(event.status % 16, event.data1)
           ended == IF rdPolicy = "fifo" THEN Oldest(open) ELSE Newest(open)
       IN  /\ rdTick' = tick
           /\ IF open = {}
                THEN UNCHANGED <<sounding, recovered>>
                ELSE /\ recovered' = recovered \cup
                            {[pitch |-> event.data1,
                              startTick |-> sounding[ended].tick,
                              endTick |-> tick]}
                     /\ sounding' = SubSeq(sounding, 1, ended - 1)
                            \o SubSeq(sounding, ended + 1, Len(sounding))
    /\ rdPos' = rdPos + 1
    /\ UNCHANGED <<mPc, noteSequence, events, trackData, rdPolicy>>

ReadEnd ==
    /\ mPc = "written"
    /\ rdPos > Len(trackData)
    /\ mPc' = "read"
    /\ UNCHANGED <<noteSequence, events, trackData, rdPolicy, rdPos, rdTick,
                   sounding, recovered>>

MidiIdle ==
    /\ mPc = "idle" /\ noteSequence = [notes |-> <<>>, qpm |-> 0]
    /\ events = <<>> /\ trackData = <<>> /\ rdPolicy = "fifo"
    /\ rdPos = 1 /\ rdTick = 0 /\ sounding = <<>> /\ recovered = {}

(***************************************************************************)
(* Specification of generate()                                             *)
(***************************************************************************)
\* Bounds and inputs.  A melody has up to MaxMelodyLen notes in chronological
\* order, as the transcriber delivers them at the tempo qpm: note i starts
\* stride sixteenths after note i - 1 and lasts dur thirty-seconds.
MaxMelodyLen == 2
RandLen == 3
MelodyPitches == {62, 72, 89}
Rhythms ==
    {[dur |-> 8, stride |-> 4], [dur |-> 3, stride |-> 1],
     [dur |-> 20, stride |-> 12]}
RandomValues == {5, 95}
\* A call: the tempo of the melody (0: no tempos entry) and the options.
Calls ==
    {[qpm |-> 0, opts |-> NoOptions],
     [qpm |-> 90, opts |-> [density |-> <<0>>, complexity |-> <<30>>,
                            codaLength |-> <<24>>]],
     [qpm |-> 90, opts |-> [density |-> <<20>>, complexity |-> <<100>>,
                            codaLength |-> <<>>]],
     [qpm |-> 120, opts |-> [density |-> <<100>>, complexity |-> <<0>>,
                             codaLength |-> <<4>>]]}

\* The beat of generate() at a tempo: an eighth note.
BeatOf(qpm) == (60 * UnitsPerSecond) \div (OrDefault(qpm, 120) * 2)

Melody(ps, rhythm, qpm) ==
    [i \in 1..Len(ps) |->
        [pitch |-> ps[i],
         startTime |-> 1000 + ((i - 1) * rhythm.stride * BeatOf(qpm)) \div 2,
         endTime |-> 1000 + ((i - 1) * rhythm.stride * BeatOf(qpm)) \div 2
                          + (rhythm.dur * BeatOf(qpm)) \div 4,
         velocity |-> 80]]

InitGen ==
    /\ gPc = "call"
    /\ options = <<>>
    /\ beatDuration = UnitsPerSecond \div 2
    /\ \E call \in Calls, n \in 0..MaxMelodyLen, rhythm \in Rhythms :
          \E ps \in [1..n -> MelodyPitches] :
              /\ inputSequence = [kind |-> "notes",
                                  notes |-> Melody(ps, rhythm, call.qpm),
                                  qpm |-> call.qpm]
              /\ argOptions = call.opts
    /\ subject = <<>> /\ answer = <<>> /\ countersubject = <<>>
    /\ exposition = NoSection /\ coda = NoSection /\ fugue = NoFugue
    /\ randomTape \in [1..RandLen -> RandomValues]
    /\ randomPos = 0
    /\ calledOn = [options |-> options, beatDuration |-> beatDuration]
    /\ ClampIdle /\ RangeIdle /\ QuantIdle /\ SegIdle /\ MidiIdle
    /\ TranscribeIdle
    /\ RecorderIdle

NextGen ==
    /\ (GenerateThrow \/ GenerateBegin \/ BuildExposition \/ BuildCoda
        \/ GenerateReturn)
    /\ UNCHANGED <<calledOn, clampVars, rangeVars, quantVars, segVars,
                   midiVars, transcribeVars>>
    /\ UNCHANGED recorderVars

SpecGen == InitGen /\ [][NextGen]_vars

(***************************************************************************)
(* Specification of generate() on an instance that may have been used      *)
(***************************************************************************)
\* What lines 35-94 return for a sequence with notes on an instance just
\* constructed, when Math.random() returns the values of rnd in turn.
Generate(sequence, opts, rnd) ==
    LET o == OptionsOf(opts)
        bd == BeatOf(sequence.qpm)
        subj == extractAndQuantizeSubject(sequence.notes, bd)
        ans == generateAnswer(subj)
        cs == generateCountersubject(subj)
        expo == buildExposition(rnd, subj, ans, cs, o, 0)
        cod == buildCoda(rnd, subj, expo.endBeat, o, expo.pos)
        all == expo.notes \o cod.notes
    IN  [notes |-> ArrayOf([i \in 1..Len(all) |-> OutputNote(all[i], bd)]),
         totalTime |-> cod.endBeat * bd,
         qpm |-> OrDefault(sequence.qpm, 120)]

\* The fields generate() assigns, as the constructor leaves them and as a
\* call of generate() leaves them.
FreshInstance == [options |-> <<>>, beatDuration |-> UnitsPerSecond \div 2]
InstanceAfter(call) ==
    [options |-> <<OptionsOf(call.opts)>>, beatDuration |-> BeatOf(call.qpm)]
EarlierCalls == {call \in Calls : call.qpm = 90}
Instances == {FreshInstance} \cup {InstanceAfter(call) : call \in EarlierCalls}

\* The arguments: no sequence, a sequence without notes, and melodies of up
\* to MaxMelodyLen quarter notes.
InstancePitches == {62, 89}
InstanceInputs(qpm) ==
    {[kind |-> "null", notes |-> <<>>, qpm |-> 0],
     [kind |-> "noNotes", notes |-> <<>>, qpm |-> qpm]}
    \cup {[kind |-> "notes",
           notes |-> Melody(ps, [dur |-> 8, stride |-> 4], qpm),
           qpm |-> qpm] :
             ps \in UNION {[1..n -> InstancePitches] : n \in 0..MaxMelodyLen}}

InitInstance ==
    /\ gPc = "call"
    /\ \E instance \in Instances :
          /\ options = instance.options
          /\ beatDuration = instance.beatDuration
    /\ \E call \in Calls :
          /\ inputSequence \in InstanceInputs(call.qpm)
          /\ argOptions = call.opts
    /\ subject = <<>> /\ answer = <<>> /\ countersubject = <<>>
    /\ exposition = NoSection /\ coda = NoSection /\ fugue = NoFugue
    /\ randomTape \in [1..RandLen -> RandomValues]
    /\ randomPos = 0
    /\ calledOn = [options |-> options, beatDuration |-> beatDuration]
    /\ ClampIdle /\ RangeIdle /\ QuantIdle /\ SegIdle /\ MidiIdle
    /\ TranscribeIdle
    /\ RecorderIdle

SpecInstance == InitInstance /\ [][NextGen]_vars

(***************************************************************************)
(* Specification of extractAndQuantizeSubject, as generate() calls it      *)
(***************************************************************************)
\* Melodies of up to MaxSubjectLen notes in chronological order, each note
\* starting a gap after the start of the one before and lasting one of the
\* durations, which lie below, at and above half a beat and a beat and a
\* half at 120 and 90 bpm.
MaxSubjectLen == 3
SubjectGaps == {0, 750, 2300}
SubjectDurations == {300, 750, 2250, 4000}
RECURSIVE SubjectMelody(_, _)
SubjectMelody(steps, startTime) ==
    IF steps = <<>> THEN <<>>
    ELSE <<[pitch |-> 60 + Len(steps),
            startTime |-> startTime + Head(steps).gap,
            endTime |-> startTime + Head(steps).gap + Head(steps).dur,
            velocity |-> 80]>>
         \o SubjectMelody(Tail(steps), startTime + Head(steps).gap)

InitSubject ==
    /\ gPc = "call"
    /\ options = <<>>
    /\ beatDuration = UnitsPerSecond \div 2
    /\ \E n \in 1..MaxSubjectLen, qpm \in {0, 90} :
          \E steps \in [1..n -> [gap : SubjectGaps, dur : SubjectDurations]] :
              inputSequence = [kind |-> "notes",
                               notes |-> SubjectMelody(steps, 1000),
                               qpm |-> qpm]
    /\ argOptions = NoOptions
    /\ subject = <<>> /\ answer = <<>> /\ countersubject = <<>>
    /\ exposition = NoSection /\ coda = NoSection /\ fugue = NoFugue
    /\ randomTape = <<5>>
    /\ randomPos = 0
    /\ calledOn = [options |-> options, beatDuration |-> beatDuration]
    /\ ClampIdle /\ RangeIdle /\ QuantIdle /\ SegIdle /\ MidiIdle
    /\ TranscribeIdle
    /\ RecorderIdle

NextSubject ==
    /\ GenerateBegin
    /\ UNCHANGED <<calledOn, clampVars, rangeVars, quantVars, segVars,
                   midiVars, transcribeVars>>
    /\ UNCHANGED recorderVars

SpecSubject == InitSubject /\ [][NextSubject]_vars

(***************************************************************************)
(* Specification of exportMidi followed by a reading of the track          *)
(***************************************************************************)
\* A sequence has up to MaxNotes notes, note i in voice (i - 1) % 4, each
\* from one of the times of MidiTimes to a later one.
MaxNotes == 2
MidiPitches == {60, 64}
MidiTimes == {0, 1003, 2000, 3000}
MidiTempos == {0, 90}
MidiNotes ==
    {[pitch |-> p, startTime |-> a, endTime |-> b] :
        p \in MidiPitches,
        a \in MidiTimes, b \in MidiTimes}

InitMidi ==
    /\ mPc = "call"
    /\ \E n \in 0..MaxNotes : \E ns \in [1..n -> MidiNotes] :
          /\ \A i \in 1..n : ns[i].startTime < ns[i].endTime
          /\ noteSequence \in
                {[notes |-> [i \in 1..n |->
                                [pitch |-> ns[i].pitch,
                                 startTime |-> ns[i].startTime,
                                 endTime |-> ns[i].endTime,
                                 velocity |-> 100,
                                 instrument |-> (i - 1) % 4]],
                  qpm |-> qpm] : qpm \in MidiTempos}
    /\ events = <<>> /\ trackData = <<>>
    /\ rdPolicy \in {"fifo", "lifo"}
    /\ rdPos = 1 /\ rdTick = 0 /\ sounding = <<>> /\ recovered = {}
    /\ ClampIdle /\ RangeIdle /\ QuantIdle /\ SegIdle /\ GenIdle
    /\ TranscribeIdle
    /\ RecorderIdle

NextMidi ==
    /\ (ExportNothing \/ ExportMidi \/ ReadNoteOn \/ ReadNoteOff \/ ReadEnd)
    /\ UNCHANGED <<clampVars, rangeVars, quantVars, segVars, genVars,
                   transcribeVars>>
    /\ UNCHANGED recorderVars

SpecMidi == InitMidi /\ [][NextMidi]_vars

(***************************************************************************)
(* Specification of clampPitch: any pitch, any range with min <= max       *)
(***************************************************************************)
InitClamp ==
    /\ cpPc = "up"
    /\ cpArg \in PitchArgs
    /\ cpPitch = cpArg
    /\ \E r \in Ranges : cpMin = r.min /\ cpMax = r.max
    /\ cpIter = 0
    /\ RangeIdle /\ QuantIdle /\ SegIdle /\ GenIdle /\ MidiIdle
    /\ TranscribeIdle
    /\ RecorderIdle

NextClamp ==
    /\ (ClampUp \/ ClampDown \/ ClampReturn)
    /\ UNCHANGED <<rangeVars, quantVars, segVars, genVars, midiVars,
                   transcribeVars>>
    /\ UNCHANGED recorderVars

\* A call runs to completion: the function is synchronous.
SpecClamp == InitClamp /\ [][NextClamp]_vars /\ WF_vars(NextClamp)

(***************************************************************************)
(* Specification of transposeToRange                                       *)
(***************************************************************************)
InitRange ==
    /\ trPc = "call"
    /\ \E ps \in NoteLists : trSequence = NoteListOf(ps)
    /\ trRange \in Ranges
    /\ trOnce = <<>>
    /\ trTwice = <<>>
    /\ ClampIdle /\ QuantIdle /\ SegIdle /\ GenIdle /\ MidiIdle
    /\ TranscribeIdle
    /\ RecorderIdle

NextRange ==
    /\ (TransposeOnce \/ TransposeTwice)
    /\ UNCHANGED <<clampVars, quantVars, segVars, genVars, midiVars,
                   transcribeVars>>
    /\ UNCHANGED recorderVars

SpecRange == InitRange /\ [][NextRange]_vars

(***************************************************************************)
(* clampPitch and transposeToRange called with an inverted range           *)
(***************************************************************************)
\* Ranges with min > max.
InvertedRanges ==
    {[min |-> hi + w, max |-> hi] : hi \in {48, 60}, w \in 1..MaxRangeWidth}

\* Either function is called once with an inverted range.
InitInverted ==
    /\ QuantIdle /\ SegIdle /\ GenIdle /\ MidiIdle /\ TranscribeIdle
    /\ \/ /\ cpPc = "up"
          /\ cpArg \in PitchArgs
          /\ cpPitch = cpArg
          /\ \E r \in InvertedRanges : cpMin = r.min /\ cpMax = r.max
          /\ cpIter = 0
          /\ RangeIdle
       \/ /\ trPc = "call"
          /\ \E ps \in NoteLists : trSequence = NoteListOf(ps)
          /\ trRange \in InvertedRanges
          /\ trOnce = <<>>
          /\ trTwice = <<>>
          /\ ClampIdle
    /\ RecorderIdle

NextInverted ==
    /\ \/ (ClampUp \/ ClampDown \/ ClampReturn) /\ UNCHANGED rangeVars
       \/ (TransposeOnce \/ TransposeTwice) /\ UNCHANGED clampVars
    /\ UNCHANGED <<quantVars, segVars, genVars, midiVars, transcribeVars>>
    /\ UNCHANGED recorderVars

SpecInverted == InitInverted /\ [][NextInverted]_vars

(***************************************************************************)
(* Specification of quantizeNotes                                          *)
(***************************************************************************)
InitQuant ==
    /\ qPc = "call"
    /\ \E start \in QuantStarts, dur \in 1..MaxQuantDur,
          follower \in QuantFollowers :
          /\ (follower # <<>> => dur % 250 = 0)
          /\ qNotes = QuantInput(start, dur, follower)
    /\ qBpm \in QuantBpms
    /\ qResult = <<>>
    /\ ClampIdle /\ RangeIdle /\ SegIdle /\ GenIdle /\ MidiIdle
    /\ TranscribeIdle
    /\ RecorderIdle

NextQuant ==
    /\ QuantizeNotes
    /\ UNCHANGED <<clampVars, rangeVars, segVars, genVars, midiVars,
                   transcribeVars>>
    /\ UNCHANGED recorderVars

SpecQuant == InitQuant /\ [][NextQuant]_vars

(***************************************************************************)
(* Specification of the calls that take a caller's notes: generate,        *)
(* transposeToRange and quantizeNotes                                      *)
(***************************************************************************)
InitCallers == InitGen \/ InitRange \/ InitQuant

NextCallers == NextGen \/ NextRange \/ NextQuant

SpecCallers == InitCallers /\ [][NextCallers]_vars

(***************************************************************************)
(* Specification of segmentNotes                                           *)
(***************************************************************************)
InitSeg ==
    /\ sgPc = "loop"
    /\ \E n \in 0..MaxFrames : \E track \in [1..n -> FrameKinds] :
          /\ pitches = [i \in 1..n |-> track[i].hz]
          /\ confidences = [i \in 1..n |-> track[i].conf]
          /\ trackDuration = n * FrameUnits
    /\ config \in SegConfigs
    /\ frame = 0
    /\ currentNote = <<>>
    /\ silenceCounter = 0
    /\ segNotes = <<>>
    /\ ClampIdle /\ RangeIdle /\ QuantIdle /\ GenIdle /\ MidiIdle
    /\ TranscribeIdle
    /\ RecorderIdle

NextSeg ==
    /\ (SegSilentFrame \/ SegOpenNote \/ SegSplitNote \/ SegExtendNote
        \/ SegReturn)
    /\ UNCHANGED <<clampVars, rangeVars, quantVars, genVars, midiVars,
                   transcribeVars>>
    /\ UNCHANGED recorderVars

SpecSeg == InitSeg /\ [][NextSeg]_vars

(***************************************************************************)
(* Specification of transcribe: tracks as for segmentNotes                 *)
(***************************************************************************)
TranscribeOptions ==
    {NoTranscribeOptions,
     [centsThreshold |-> <<50>>, silenceMs |-> <<100>>,
      smoothingFrames |-> <<1>>, bpm |-> <<120>>]}

InitTranscribe ==
    /\ tcPc = "call"
    /\ \E n \in 0..MaxFrames : \E track \in [1..n -> FrameKinds] :
          /\ audioFeatures = [f0_hz |-> [i \in 1..n |-> track[i].hz],
                              confidences |-> [i \in 1..n |-> track[i].conf]]
          /\ audioDuration = n * FrameUnits
    /\ tcOptions \in TranscribeOptions
    /\ transcribedSequence = NoSequence
    /\ SegIdle
    /\ ClampIdle /\ RangeIdle /\ QuantIdle /\ GenIdle /\ MidiIdle
    /\ RecorderIdle

NextTranscribe ==
    /\ \/ TranscribeRethrow
       \/ TranscribeSegment
       \/ /\ tcPc = "segmenting"
          /\ (SegSilentFrame \/ SegOpenNote \/ SegSplitNote \/ SegExtendNote
              \/ SegReturn)
          /\ UNCHANGED transcribeVars
       \/ TranscribeReturn
    /\ UNCHANGED <<clampVars, rangeVars, quantVars, genVars, midiVars>>
    /\ UNCHANGED recorderVars

SpecTranscribe == InitTranscribe /\ [][NextTranscribe]_vars

InRange(p, range) == range.min <= p /\ p <= range.max

\* C1: for all integers p and min <= max, clampPitch(p, min, max) terminates
\* and the value it returns lies in [min, max].
C1_ClampPitchInRange ==
    /\ [](cpPc = "done" => (cpMin <= cpPitch /\ cpPitch <= cpMax))
    /\ <>(cpPc = "done")

\* A call that folded upwards more than once and then had to come back down.
C1_Witness ==
    /\ cpPc = "done"
    /\ cpArg < cpMin - 12
    /\ cpIter >= 3
    /\ cpPitch = cpMin

\* C2: transposeToRange of a non-empty list returns a list of the same
\* length, in the same order and with the same beats, every pitch inside
\* the range.
C2_TransposeInRange ==
    trPc \in {"once", "twice"} =>
        /\ Len(trOnce) = Len(trSequence)
        /\ \A i \in 1..Len(trSequence) :
              /\ trOnce[i].startBeat = trSequence[i].startBeat
              /\ trOnce[i].endBeat = trSequence[i].endBeat
              /\ InRange(trOnce[i].pitch, trRange)

\* A list of several notes in which the transposition alone left a pitch
\* outside the range.
C2_Witness ==
    /\ trPc = "once"
    /\ Len(trSequence) >= 2
    /\ \E i \in 1..Len(trSequence) :
          ~InRange(trSequence[i].pitch + TransposeOf(trSequence, trRange),
                   trRange)

SamePitches(a, b) ==
    /\ Len(a) = Len(b)
    /\ \A i \in 1..Len(a) : a[i].pitch = b[i].pitch

\* The first pass needed no octave fold and no clamp.
NoFoldNeeded(sequence, range) ==
    \A i \in 1..Len(sequence) :
        InRange(sequence[i].pitch + TransposeOf(sequence, range), range)

\* C3 as stated: a second transposeToRange with the same range returns the
\* pitches of the first unchanged.
C3_Idempotent ==
    trPc = "twice" => SamePitches(trTwice, trOnce)

\* C3 amended: when the first pass folded or clamped no pitch, the second
\* pass resolves its transpose to 0 and returns every pitch unchanged.
C3_IdempotentWithoutFold ==
    (trPc = "twice" /\ NoFoldNeeded(trSequence, trRange)) =>
        /\ TransposeOf(trOnce, trRange) = 0
        /\ SamePitches(trTwice, trOnce)

\* A second pass over several distinct pitches that the first pass moved
\* without folding, one of them onto the lower boundary.
C3_Witness ==
    /\ trPc = "twice"
    /\ Len(trSequence) >= 2
    /\ NoFoldNeeded(trSequence, trRange)
    /\ TransposeOf(trSequence, trRange) # 0
    /\ \E i \in 1..Len(trOnce) : trOnce[i].pitch = trRange.min
    /\ \E i, j \in 1..Len(trOnce) : trOnce[i].pitch # trOnce[j].pitch

\* C4: quantizeNotes gives every note a duration, in beats of 60/BPM, that is
\* an entry of the rhythmic-value table at minimal distance from the
\* note's own duration in beats; of two equally close entries the one
\* earlier in the table is chosen.
C4_QuantizedDurationClosest ==
    qPc = "done" =>
        \A i \in 1..Len(qNotes) :
            LET d == qNotes[i].endTime - qNotes[i].startTime
                bd == QuantBeatDuration(qBpm)
                out == qResult[i].endTime - qResult[i].startTime
            IN  \E k \in 1..Len(rhythmicValues) :
                    /\ 8 * out = rhythmicValues[k] * bd
                    /\ \A j \in 1..Len(rhythmicValues) :
                          /\ Cost(d, bd, rhythmicValues[k])
                                <= Cost(d, bd, rhythmicValues[j])
                          /\ Cost(d, bd, rhythmicValues[k])
                                = Cost(d, bd, rhythmicValues[j]) => k <= j

\* A quantized note whose duration lay exactly half way between two entries
\* of the table.
C4_Witness ==
    /\ qPc = "done"
    /\ LET d == qNotes[1].endTime - qNotes[1].startTime
           bd == QuantBeatDuration(qBpm)
       IN  \E j, k \in 1..Len(rhythmicValues) :
              /\ j < k
              /\ Cost(d, bd, rhythmicValues[j]) = Cost(d, bd, rhythmicValues[k])
              /\ \A m \in 1..Len(rhythmicValues) :
                    Cost(d, bd, rhythmicValues[j]) <= Cost(d, bd, rhythmicValues[m])
              /\ 8 * (qResult[1].endTime - qResult[1].startTime)
                    = rhythmicValues[j] * bd

FrameActive(i) == confidences[i] > 5 /\ pitches[i] > 0

\* Every frame active: the same pitch > 0 at confidence 1.0.
AllActiveTrack ==
    /\ Len(pitches) >= 1
    /\ \A i \in 1..Len(pitches) :
          confidences[i] = 10 /\ pitches[i] > 0 /\ pitches[i] = pitches[1]

\* C5: a track in which every frame is active at one pitch yields exactly one
\* note, from time 0 to the track's total duration.
C5_ContinuousTrackOneNote ==
    (sgPc = "done" /\ AllActiveTrack) =>
        /\ Len(segNotes) = 1
        /\ segNotes[1].startTime = 0
        /\ segNotes[1].endTime = trackDuration

C5_Witness ==
    /\ sgPc = "done"
    /\ AllActiveTrack
    /\ Len(pitches) >= 3
    /\ Len(segNotes) = 1

\* a active frames at one pitch, g inactive frames lasting longer than
\* silenceMs, then b active frames at one pitch, and nothing else.
TwoRunTrack(a, g, b) ==
    /\ a >= 1 /\ g >= 1 /\ b >= 1
    /\ Len(pitches) = a + g + b
    /\ \A i \in 1..a : FrameActive(i) /\ pitches[i] = pitches[1]
    /\ \A i \in (a + 1)..(a + g) : ~FrameActive(i)
    /\ \A i \in (a + g + 1)..(a + g + b) :
          FrameActive(i) /\ pitches[i] = pitches[a + g + 1]
    /\ g * frameTime * 1000 > config.silenceMs * UnitsPerSecond

\* C6: an active run, a silent gap longer than silenceMs and a second active
\* run yield exactly two notes, each strictly shorter than the track.
C6_GapTrackTwoNotes ==
    (sgPc = "done"
     /\ \E a, g, b \in 1..Len(pitches) : TwoRunTrack(a, g, b)) =>
        /\ Len(segNotes) = 2
        /\ \A k \in 1..2 :
              segNotes[k].endTime - segNotes[k].startTime < trackDuration

\* Such a track whose gap is exactly silenceFrames frames long and whose two
\* runs have the same pitch.
C6_Witness ==
    /\ sgPc = "done"
    /\ \E a, g, b \in 1..Len(pitches) :
          /\ TwoRunTrack(a, g, b)
          /\ g = silenceFrames
          /\ a >= 2
          /\ pitches[a + g + 1] = pitches[1]
    /\ Len(segNotes) = 2

(***************************************************************************)
(* The fugue generate() returns                                            *)
(***************************************************************************)
\* The indices of the returned notes that voice v plays.
NotesOfVoice(v) ==
    {i \in 1..Len(fugue.notes) : fugue.notes[i].instrument = v}

\* C7: the sequence generate() returns uses exactly four voices: every
\* note's instrument is one of 0, 1, 2, 3 and each of the four plays at least
\* one note.
C7_ExactlyFourVoices ==
    gPc = "done" =>
        /\ \A i \in 1..Len(fugue.notes) : fugue.notes[i].instrument \in 0..3
        /\ \A v \in 0..3 : NotesOfVoice(v) # {}

\* A fugue with the thinnest episode (one voice per repetition) on a
\* one-note melody.
C7_Witness ==
    /\ gPc = "done"
    /\ Len(inputSequence.notes) = 1
    /\ options[1].density = 20
    /\ \A v \in 0..3 : NotesOfVoice(v) # {}

CadenceClass(v) ==
    LET tonic == inputSequence.notes[1].pitch % 12
    IN  IF v = 1 THEN (tonic + 4) % 12
        ELSE IF v = 2 THEN (tonic + 7) % 12
        ELSE tonic

\* Note i is the last note of voice v to start, it starts at time t, and it
\* is the note of the final chord for v.
IsCadenceNote(i, v, t) ==
    /\ i \in NotesOfVoice(v)
    /\ fugue.notes[i].startTime = t
    /\ \A j \in NotesOfVoice(v) \ {i} : fugue.notes[j].startTime < t
    /\ fugue.notes[i].pitch % 12 = CadenceClass(v)
    /\ fugue.notes[i].pitch >= VoiceRanges[v + 1].min
    /\ fugue.notes[i].pitch <= VoiceRanges[v + 1].max

\* C9: the last note of each voice is its note of the final chord: the four
\* start together at the cadence beat, soprano and bass on the tonic's pitch
\* class, alto a major third and tenor a fifth above it (mod 12), each inside
\* its voice's range.
C9_LastNotesFormCadence ==
    gPc = "done" =>
        \E t \in {fugue.notes[i].startTime : i \in 1..Len(fugue.notes)} :
            /\ t = (coda.endBeat - 4) * beatDuration
            /\ \A v \in 0..3 : \E i \in NotesOfVoice(v) : IsCadenceNote(i, v, t)

\* A fugue on a melody that does not begin on C, with a long coda, in which
\* the alto's final note differs from the note it played before.
C9_Witness ==
    /\ gPc = "done"
    /\ inputSequence.notes[1].pitch % 12 # 0
    /\ options[1].codaLength = 24
    /\ \E i, j \in NotesOfVoice(1) :
          /\ IsCadenceNote(i, 1, (coda.endBeat - 4) * beatDuration)
          /\ j < i
          /\ \A k \in NotesOfVoice(1) : k < i => k <= j
          /\ fugue.notes[j].pitch # fugue.notes[i].pitch

\* C11: generate() called without a sequence, with a sequence that has no
\* notes field or with one of zero notes throws: the call ends with an error,
\* returns no NoteSequence, and options and beatDuration stay as they were
\* before the call (voiceRanges is never assigned after construction).
C11_ThrowLeavesInstance ==
    [][(/\ gPc = "call"
        /\ \/ inputSequence.kind \in {"null", "noNotes"}
           \/ Len(inputSequence.notes) = 0)
       => (/\ gPc' = "thrown"
           /\ options' = options
           /\ beatDuration' = beatDuration
           /\ fugue' = NoFugue)]_vars

\* A call without a sequence has thrown on an instance that an earlier call
\* had left at 90 bpm.
C11_Witness ==
    /\ gPc = "thrown"
    /\ inputSequence.kind = "null"
    /\ options # <<>>
    /\ beatDuration = BeatOf(90)
    /\ fugue = NoFugue

(***************************************************************************)
(* The track exportMidi writes, read back                                  *)
(***************************************************************************)
\* A time of the sequence and a tick of the track are at most one tick
\* apart: tick - time * bpm * ticksPerBeat / 60 lies in [-1, 1].
WithinOneTick(time, tick) ==
    Abs(tick * 60 * UnitsPerSecond
        - time * OrDefault(noteSequence.qpm, 120) * ticksPerBeat)
      <= 60 * UnitsPerSecond

NoteReadBack(note, r) ==
    /\ r.pitch = note.pitch
    /\ WithinOneTick(note.startTime, r.startTick)
    /\ WithinOneTick(note.endTime, r.endTick)

\* The notes read back are the notes of the sequence, to within one tick.
MidiRoundTripRecovers ==
    /\ \A i \in 1..Len(noteSequence.notes) :
          \E r \in recovered : NoteReadBack(noteSequence.notes[i], r)
    /\ \A r \in recovered :
          \E i \in 1..Len(noteSequence.notes) :
              NoteReadBack(noteSequence.notes[i], r)

\* The events are written in non-decreasing tick order, a note-off before a
\* note-on of the same tick, and every delta time written is the distance
\* from the event before, which is not negative.
MidiEventsOrdered ==
    /\ \A i \in 1..(Len(events) - 1) :
          /\ events[i].tick <= events[i + 1].tick
          /\ (events[i].tick = events[i + 1].tick
              /\ events[i].type = "noteOn") => events[i + 1].type = "noteOn"
    /\ \A i \in 1..Len(trackData) :
          /\ readVarLen(trackData[i].delta) >= 0
          /\ readVarLen(trackData[i].delta)
                = events[i].tick - (IF i = 1 THEN 0 ELSE events[i - 1].tick)

\* C10: reading back the note events exportMidi wrote, in the order written,
\* recovers the set of (pitch, startTime, endTime) of the sequence to within
\* one tick, also when two voices sound one pitch at overlapping times; and
\* the events are written in order, with non-negative delta times.
C10_MidiRoundTrip ==
    mPc = "read" => (MidiRoundTripRecovers /\ MidiEventsOrdered)

\* Two voices sound the same pitch, the second from after the first's start
\* to before its end, and the track has been read to its end.
C10_Witness ==
    /\ mPc = "read"
    /\ Len(noteSequence.notes) = 2
    /\ noteSequence.notes[1].instrument # noteSequence.notes[2].instrument
    /\ noteSequence.notes[1].pitch = noteSequence.notes[2].pitch
    /\ noteSequence.notes[1].startTime < noteSequence.notes[2].startTime
    /\ noteSequence.notes[2].endTime < noteSequence.notes[1].endTime
    /\ Cardinality(recovered) = 2

(***************************************************************************)
(* The sequence transcribe() returns                                       *)
(***************************************************************************)
\* C12: a pitch track that yields no usable note (no frame, no active frame,
\* or only notes shorter than the minimum duration) makes transcribe() raise
\* an error: it never returns a NoteSequence whose notes list is empty.
C12_EmptyTrackRaises ==
    tcPc = "returned" => Len(transcribedSequence.notes) > 0

\* transcribe() has returned for a track whose only note, one active frame
\* followed by silence, is shorter than the minimum duration.
C12_Witness ==
    /\ tcPc = "returned"
    /\ Len(audioFeatures.f0_hz) >= 3
    /\ Len(segNotes) = 1
    /\ (segNotes[1].endTime - segNotes[1].startTime) * 1000
          < minNoteDuration * UnitsPerSecond
    /\ transcribedSequence.notes = <<>>

(***************************************************************************)
(* Ranges with min > max                                                   *)
(***************************************************************************)
\* C13: a range with min > max is rejected: clampPitch and transposeToRange
\* called with min > max raise an error instead of returning a pitch, so
\* neither call ever completes with a result.
C13_InvertedRangeRejected ==
    /\ cpMin > cpMax => cpPc # "done"
    /\ trRange.min > trRange.max => trPc \notin {"once", "twice"}

\* clampPitch has returned for a range with min > max, after folding the
\* pitch up and down again, and the pitch it returned is min, above max.
C13_Witness ==
    /\ cpPc = "done"
    /\ cpMin > cpMax
    /\ cpIter >= 2
    /\ cpPitch = cpMin
    /\ cpPitch > cpMax

(***************************************************************************)
(* The times of the sequence generate() returns                            *)
(***************************************************************************)
\* C14: the sequence generate() returns satisfies
\* totalTime >= max(note.endTime) over all of its notes: exposition, bridges,
\* episode repetitions, stretto, coda bridges and cadence chord.
C14_TotalTimeCoversNotes ==
    gPc = "done" =>
        \A i \in 1..Len(fugue.notes) :
            fugue.notes[i].endTime <= fugue.totalTime

\* generate() has returned a fugue of a two-note melody whose cadence chord
\* ends exactly at totalTime, every other note ending no later.
C14_Witness ==
    /\ gPc = "done"
    /\ Len(inputSequence.notes) = 2
    /\ Len(fugue.notes) > 4
    /\ fugue.totalTime > 0
    /\ fugue.notes[Len(fugue.notes)].endTime = fugue.totalTime
    /\ \E i \in 1..Len(fugue.notes) :
          fugue.notes[i].endTime < fugue.totalTime

\* C15: the sequence transcribe() returns satisfies
\* totalTime >= max(note.endTime): no quantized note ends after the audio
\* duration reported as totalTime in the same sequence.
C15_TranscribedWithinTotalTime ==
    tcPc = "returned" =>
        \A i \in 1..Len(transcribedSequence.notes) :
            transcribedSequence.notes[i].endTime
                <= transcribedSequence.totalTime

\* transcribe() has returned a note that segmentNotes ended at the audio
\* duration and that quantizeNotes lengthened to the nearest rhythmic value.
C15_Witness ==
    /\ tcPc = "returned"
    /\ Len(segNotes) = 1
    /\ segNotes[1].endTime = audioDuration
    /\ Len(transcribedSequence.notes) = 1
    /\ transcribedSequence.notes[1].endTime > transcribedSequence.totalTime

\* The notes of a section last at least one beat each.
LastAtLeastOneBeat(notes) ==
    \A i \in 1..Len(notes) : notes[i].endBeat - notes[i].startBeat >= 1

\* C16: every note of the sequence generate() returns has
\* endTime > startTime and lasts at least one beat
\* (endBeat - startBeat >= 1), bridge notes cut at the end of the exposition
\* or at the target cadence beat included.
C16_NotesLastOneBeat ==
    /\ gPc \in {"exposed", "coda", "done"} =>
           LastAtLeastOneBeat(exposition.notes)
    /\ gPc \in {"coda", "done"} => LastAtLeastOneBeat(coda.notes)
    /\ gPc = "done" =>
           \A i \in 1..Len(fugue.notes) :
               /\ fugue.notes[i].endTime > fugue.notes[i].startTime
               /\ fugue.notes[i].endTime - fugue.notes[i].startTime
                      >= beatDuration

\* generate() has returned a fugue whose coda holds a bridge note cut at the
\* target cadence beat: it is shorter than every note of the subject.
C16_Witness ==
    /\ gPc = "done"
    /\ Len(fugue.notes) = Len(exposition.notes) + Len(coda.notes)
    /\ \E i \in 1..Len(coda.notes) :
          /\ coda.notes[i].endBeat % 8 = 0
          /\ \A j \in 1..Len(subject) :
                coda.notes[i].endBeat - coda.notes[i].startBeat
                    < subject[j].endBeat - subject[j].startBeat

(***************************************************************************)
(* The arguments of the caller                                             *)
(***************************************************************************)
\* C17: no stage changes data it did not create: no step of generate(),
\* transposeToRange() or quantizeNotes() changes the caller's sequence (its
\* notes list and every note in it), the caller's options, range or tempo.
C17_ArgumentsUnchanged ==
    [][/\ inputSequence' = inputSequence
       /\ argOptions' = argOptions
       /\ trSequence' = trSequence
       /\ trRange' = trRange
       /\ qNotes' = qNotes
       /\ qBpm' = qBpm]_vars

\* generate() has returned for a caller who left the options out: the
\* instance holds the defaults and the subject starts at beat 0, while the
\* caller's options are still empty and the caller's first note still starts
\* at its own time.
C17_Witness ==
    /\ gPc = "done"
    /\ Len(inputSequence.notes) = 2
    /\ argOptions = NoOptions
    /\ options = <<[density |-> 50, complexity |-> 70, codaLength |-> 8]>>
    /\ subject[1].startBeat = 0
    /\ inputSequence.notes[1].startTime = 1000
    /\ Len(fugue.notes) > 0

(***************************************************************************)
(* The random draws of generate()                                          *)
(***************************************************************************)
\* The values Math.random() returned during the call, in the order drawn.
DrawsMade == ArrayOf([i \in 1..randomPos |-> Random(randomTape, i - 1)])

\* The draws of generateEpisode are those numbered EpisodeFirst..EpisodeLast:
\* one for the direction, then per repetition and voice one per motif note
\* for the pitch and one per motif note for the velocity.
EpisodeLast ==
    buildExposition(randomTape, subject, answer, countersubject, options[1],
                    0).pos
EpisodeFirst ==
    EpisodeLast + 1
        - (1 + NumRepetitions(options[1]) * NumVoices(options[1])
                 * 2 * Len(Slice4(subject)))

\* The draws of a second run in which every generateFreeCounterpoint draw is
\* as in this run and every generateEpisode draw is e.
DrawsWithEpisode(e) ==
    ArrayOf([i \in 1..randomPos |->
                IF i >= EpisodeFirst /\ i <= EpisodeLast THEN e
                ELSE DrawsMade[i]])

C19_NoOrderOfCallDependency ==
    gPc = "done" =>
        /\ fugue = Generate(inputSequence, argOptions, randomTape)
        /\ options = <<OptionsOf(argOptions)>>
        /\ beatDuration = BeatOf(inputSequence.qpm)

\* generate() has returned on an instance that an earlier call had left with
\* another tempo and other options than those of this call.
C19_Witness ==
    /\ gPc = "done"
    /\ calledOn # FreshInstance
    /\ calledOn.options # <<OptionsOf(argOptions)>>
    /\ calledOn.beatDuration # BeatOf(inputSequence.qpm)
    /\ calledOn.options[1].density # OptionsOf(argOptions).density
    /\ Len(fugue.notes) > 0

(***************************************************************************)
(* The pitches of the sequence generate() returns                          *)
(***************************************************************************)
InVoiceRange(pitch, voice) ==
    /\ VoiceRanges[voice + 1].min <= pitch
    /\ pitch <= VoiceRanges[voice + 1].max

\* C20: every note of the sequence generate() returns has its pitch inside
\* the range of its own voice (soprano 60..81, alto 53..74, tenor 48..67,
\* bass 36..60), the free-counterpoint notes generated without a target
\* range, the episode notes and the cadence chord included.
C20_PitchesInVoiceRange ==
    gPc = "done" =>
        \A i \in 1..Len(fugue.notes) :
            /\ fugue.notes[i].voice \in 0..3
            /\ InVoiceRange(fugue.notes[i].pitch, fugue.notes[i].voice)

\* generate() has returned a fugue one of whose exposition notes, free
\* counterpoint generated without a target range, lay outside the range of
\* its voice before the final clamp and lies inside it in the output.
C20_Witness ==
    /\ gPc = "done"
    /\ \E i \in 1..Len(exposition.notes) :
          /\ ~InVoiceRange(exposition.notes[i].pitch, exposition.notes[i].voice)
          /\ fugue.notes[i].voice = exposition.notes[i].voice
          /\ fugue.notes[i].pitch # exposition.notes[i].pitch
          /\ InVoiceRange(fugue.notes[i].pitch, fugue.notes[i].voice)

(***************************************************************************)
(* The episode                                                             *)
(***************************************************************************)
\* The logical end of the exposition, where the episode starts.
ExpoEndBeat == 3 * EntrySpacing(subject) + getSequenceDuration(subject)

\* The notes of the episode: those scheduled from that beat on.
EpisodeNotes ==
    SelectSeq(exposition.notes, LAMBDA n : n.startBeat >= ExpoEndBeat)

\* The density the caller asked for, 50 when left out.
AskedDensity == OptionsOf(argOptions).density

\* C21: for every density in 0..100 passed to generate(), the episode has
\* exactly max(3, floor(density / 8)) repetitions spaced 4 beats apart, each
\* sounding in 1 voice if density <= 25, in 2 voices if 25 < density <= 75
\* and in 3 voices otherwise, with voice (repetition + slot) mod 4, and the
\* episode ends at its start beat plus 4 times the number of repetitions.
C21_EpisodeFollowsDensity ==
    gPc \in {"exposed", "coda", "done"} =>
        LET reps == Max2(3, AskedDensity \div 8)
            voices == IF AskedDensity <= 25 THEN 1
                      ELSE IF AskedDensity <= 75 THEN 2 ELSE 3
            motif == Slice4(subject)
        IN  /\ exposition.endBeat = ExpoEndBeat + 4 * reps
            /\ Len(EpisodeNotes) = reps * voices * Len(motif)
            /\ \A k \in 1..Len(EpisodeNotes) :
                  LET entry == (k - 1) \div Len(motif)
                      i == entry \div voices
                      v == entry % voices
                      j == ((k - 1) % Len(motif)) + 1
                  IN  /\ EpisodeNotes[k].voice = (i + v) % 4
                      /\ EpisodeNotes[k].startBeat
                            = ExpoEndBeat + 4 * i + motif[j].startBeat

\* generate() has returned for a caller who passed density 0: the episode
\* has six repetitions in two voices each, those of density 50.
C21_Witness ==
    /\ gPc = "done"
    /\ argOptions.density = <<0>>
    /\ options[1].density = 0
    /\ exposition.endBeat = ExpoEndBeat + 4 * 6
    /\ Len(EpisodeNotes) = 6 * 2 * Len(Slice4(subject))

(***************************************************************************)
(* The voices of the exposition                                            *)
(***************************************************************************)
\* The notes of voice v scheduled before the episode.
ExpositionVoice(v) ==
    LET expoEndBeat == ExpoEndBeat
    IN  SelectSeq(exposition.notes, LAMBDA n :
            n.voice = v /\ n.startBeat < expoEndBeat)

\* C22: after buildExposition no voice goes silent before the exposition
\* ends: for each of the four voices the latest end beat among the voice's
\* notes scheduled before the episode is at least the exposition's logical
\* end 3 * entrySpacing + subjectDuration, for every non-empty subject.
C22_NoVoiceSilentInExposition ==
    gPc \in {"exposed", "coda", "done"} =>
        \A v \in 0..3 :
            /\ Len(ExpositionVoice(v)) > 0
            /\ MaxEndBeat(ExpositionVoice(v)) >= ExpoEndBeat

\* The exposition of a one-note subject has been built: the countersubject
\* is empty, the tenor got a bridge after its subject entry, and the bridge
\* ends before the exposition does.
C22_Witness ==
    /\ gPc = "exposed"
    /\ Len(subject) = 1
    /\ countersubject = <<>>
    /\ Len(ExpositionVoice(2)) = 2
    /\ ExpositionVoice(2)[2].startBeat = ExpositionVoice(2)[1].endBeat
    /\ MaxEndBeat(ExpositionVoice(2)) < ExpoEndBeat

(***************************************************************************)
(* The voices of the coda                                                  *)
(***************************************************************************)
\* The beat of the cadence chord, and the notes voice v has in the coda
\* before it: its stretto entry, then its bridge.
CodaCadenceBeat == coda.endBeat - 4
CodaVoice(v) ==
    LET voiceNotes == VoiceNotes(coda.notes, v)
    IN  SubSeq(voiceNotes, 1, Len(voiceNotes) - 1)
CodaBridge(v) ==
    SubSeq(CodaVoice(v), Len(Slice4(subject)) + 1, Len(CodaVoice(v)))

\* The end of the stretto entry of voice v.
StrettoEnd(v) ==
    exposition.endBeat + v * StrettoInterval(options[1])
        + getSequenceDuration(Slice4(subject))

\* Every bridge note of voice v starts at or after the end of the voice's
\* stretto entry, ends no later than the cadence beat and lies in the
\* voice's range.
CodaBridgeConfined(v) ==
    \A k \in 1..Len(CodaBridge(v)) :
        /\ CodaBridge(v)[k].startBeat >= StrettoEnd(v)
        /\ CodaBridge(v)[k].endBeat <= CodaCadenceBeat
        /\ InVoiceRange(CodaBridge(v)[k].pitch, v)

\* C23: in buildCoda the free-counterpoint bridge fills the gap between a
\* voice's stretto entry and the cadence: for each voice the latest end beat
\* of its stretto and bridge notes is the beat of the cadence chord, and
\* every bridge note starts at or after the end of the voice's stretto
\* entry, ends no later than the cadence beat and lies in the voice's range.
C23_CodaBridgeFillsGap ==
    gPc \in {"coda", "done"} =>
        \A v \in 0..3 :
            /\ MaxEndBeat(CodaVoice(v)) = CodaCadenceBeat
            /\ CodaBridgeConfined(v)

\* The coda has been built: the soprano's stretto entry ended before the
\* cadence beat, its bridge has a note, and the bridge ends before the
\* cadence beat too.
C23_Witness ==
    /\ gPc = "coda"
    /\ StrettoEnd(0) < CodaCadenceBeat
    /\ Len(CodaBridge(0)) > 0
    /\ CodaBridgeConfined(0)
    /\ MaxEndBeat(CodaVoice(0)) < CodaCadenceBeat

(***************************************************************************)
(* The countersubject                                                      *)
(***************************************************************************)
\* p is round(mean - (pitch - mean) * 0.7) for note i of the subject: with
\* sum the sum of the n pitches, mean - (pitch - mean) * 0.7 is
\* (17 * sum - 7 * n * pitch) / (10 * n), and p is the integer nearest to
\* it, the upper one of two.
IsDampenedMirror(p, i) ==
    LET n == Len(subject)
        x == 17 * SumPitch(subject) - 7 * n * subject[i].pitch
    IN  /\ 2 * (10 * n * p - x) <= 10 * n
        /\ 2 * (10 * n * p - x) > 0 - 10 * n

\* q is p folded into [48, 72]: in the range, a whole number of octaves
\* from p, and p itself when p is in the range.
IsFoldedInto48To72(q, p) ==
    /\ 48 <= q /\ q <= 72
    /\ (q - p) % 12 = 0
    /\ (48 <= p /\ p <= 72) => q = p

\* The countersubject has one note per subject note, with the beats of the
\* subject, velocity 70 and the dampened mirror pitch folded into [48, 72].
CountersubjectMirrorsSubject ==
    /\ Len(countersubject) = Len(subject)
    /\ \A i \in 1..Len(subject) :
          /\ countersubject[i].startBeat = subject[i].startBeat
          /\ countersubject[i].endBeat = subject[i].endBeat
          /\ countersubject[i].velocity = 100 * 70
          /\ \E p \in 0..200 :
                /\ IsDampenedMirror(p, i)
                /\ IsFoldedInto48To72(countersubject[i].pitch, p)

\* C24 as stated: for every non-empty subject generateCountersubject
\* returns one note per subject note with the same startBeat and endBeat,
\* velocity 70 and pitch round(mean - (pitch - mean) * 0.7) folded into
\* [48, 72], mean being the subject's mean pitch.
C24_CountersubjectOfEverySubject ==
    gPc \in {"begun", "exposed", "coda", "done"} =>
        CountersubjectMirrorsSubject

\* C24 as amended: the same for every subject of at least two notes; for a
\* subject of one note generateCountersubject returns no note.
C24_CountersubjectOfTwoOrMore ==
    gPc \in {"begun", "exposed", "coda", "done"} =>
        IF Len(subject) >= 2 THEN CountersubjectMirrorsSubject
        ELSE countersubject = <<>>

\* The countersubject of a two-note subject has been generated, and one of
\* its pitches was folded: the dampened mirror of the note lay above 72.
C24_Witness ==
    /\ gPc = "begun"
    /\ Len(subject) = 2
    /\ Len(countersubject) = 2
    /\ \E i \in 1..2, p \in 73..200 :
          /\ IsDampenedMirror(p, i)
          /\ countersubject[i].pitch # p
          /\ countersubject[i].pitch # subject[i].pitch

(***************************************************************************)
(* The subject                                                             *)
(***************************************************************************)
\* r is round(num / den): the integer nearest to num / den, the upper one
\* of two.
IsRounded(r, num, den) ==
    /\ 2 * (den * r - num) <= den
    /\ 2 * (den * r - num) > 0 - den

\* The melody is in chronological order and every note has
\* endTime > startTime.
ChronologicalMelody ==
    /\ \A i \in 1..Len(inputSequence.notes) :
          inputSequence.notes[i].endTime > inputSequence.notes[i].startTime
    /\ \A i \in 1..(Len(inputSequence.notes) - 1) :
          inputSequence.notes[i].startTime
              <= inputSequence.notes[i + 1].startTime

\* C25: for every non-empty melody in chronological order with
\* endTime > startTime, extractAndQuantizeSubject returns a subject of the
\* same length whose first note has startBeat 0, whose startBeat values are
\* non-negative integers in non-decreasing order, and in which every note
\* has endBeat = startBeat + max(1, round(duration / beatDuration))
\* >= startBeat + 1.
C25_SubjectWellFormed ==
    (gPc = "begun" /\ ChronologicalMelody) =>
        /\ Len(subject) = Len(inputSequence.notes)
        /\ subject[1].startBeat = 0
        /\ \A i \in 1..Len(subject) :
              /\ subject[i].startBeat \in Nat
              /\ subject[i].endBeat >= subject[i].startBeat + 1
              /\ \E r \in 0..(subject[i].endBeat - subject[i].startBeat) :
                    /\ IsRounded(r, inputSequence.notes[i].endTime
                                      - inputSequence.notes[i].startTime,
                                 beatDuration)
                    /\ subject[i].endBeat
                          = subject[i].startBeat + (IF r < 1 THEN 1 ELSE r)
        /\ \A i \in 1..(Len(subject) - 1) :
              subject[i].startBeat <= subject[i + 1].startBeat

\* The subject of a three-note melody has been extracted: its second note
\* falls on the beat of the first, its third on a later beat, and a note
\* shorter than half a beat lasts one beat.
C25_Witness ==
    /\ gPc = "begun"
    /\ ChronologicalMelody
    /\ Len(subject) = 3
    /\ inputSequence.notes[1].startTime > 0
    /\ subject[2].startBeat = 0
    /\ inputSequence.notes[2].startTime > inputSequence.notes[1].startTime
    /\ subject[3].startBeat > 0
    /\ \E i \in 1..3 :
          /\ 2 * (inputSequence.notes[i].endTime
                    - inputSequence.notes[i].startTime) < beatDuration
          /\ subject[i].endBeat = subject[i].startBeat + 1

(***************************************************************************)
(* Silence in segmentNotes                                                 *)
(***************************************************************************)
\* The last active frame before the frame of the current iteration (frames
\* count from 1 here, so the current one is frame + 1), and the number of
\* consecutive inactive frames up to and including the current one.
LastActiveFrame ==
    CHOOSE j \in 1..frame :
        FrameActive(j) /\ \A i \in (j + 1)..frame : ~FrameActive(i)
InactiveRun == frame + 1 - LastActiveFrame

\* k frames reach ceil(silenceMs / 1000 / frameDuration): k frames last at
\* least silenceMs and k - 1 frames do not.
ReachesSilence(k) ==
    /\ k * frameTime * 1000 >= config.silenceMs * UnitsPerSecond
    /\ (k - 1) * frameTime * 1000 < config.silenceMs * UnitsPerSecond

C27_SegmentedNotesWellFormed ==
    sgPc = "done" =>
        /\ \A k \in 1..(Len(segNotes) - 1) :
              /\ segNotes[k].startTime <= segNotes[k + 1].startTime
              /\ segNotes[k].endTime <= segNotes[k + 1].startTime
        /\ \A k \in 1..Len(segNotes) :
              /\ segNotes[k].endTime > segNotes[k].startTime
              /\ segNotes[k].endTime <= trackDuration

\* A track has been segmented in which one active frame was followed by
\* silence: the note it opened was closed at the time of that frame, with
\* endTime = startTime.
C27_Witness ==
    /\ sgPc = "done"
    /\ Len(pitches) >= 3
    /\ FrameActive(1) /\ ~FrameActive(2) /\ ~FrameActive(3)
    /\ Len(segNotes) >= 1
    /\ segNotes[1].startTime = 0
    /\ segNotes[1].endTime = segNotes[1].startTime

(***************************************************************************)
(* transposeToRange and uniform transposition                              *)
(***************************************************************************)
\* The sequence with every pitch moved by c semitones.
Transposed(sequence, c) ==
    [i \in 1..Len(sequence) |-> [sequence[i] EXCEPT !.pitch = @ + c]]

\* The transpositions the generator applies before transposeToRange: the
\* answer's fifth and the episode's i * 2 * direction; and an octave.
UniformShifts == {0 - 12, 0 - 7, 0 - 4, 0 - 2, 2, 4, 7, 12, 22}

\* C28: transposeToRange is invariant under a uniform transposition of its
\* input: for a non-empty note list, an integer c and a range, the list with
\* every pitch moved by c gets the same pitches as the list itself; so the
\* answer entries (+7) and every episode repetition (i * 2 * direction) get
\* the pitches the untransposed material gets in that voice.
C28_TransposeIgnoresUniformShift ==
    trPc \in {"once", "twice"} =>
        \A c \in UniformShifts :
            SamePitches(transposeToRange(Transposed(trSequence, c), trRange),
                        trOnce)

\* transposeToRange has been applied with the alto range to several
\* distinct pitches, one of which had to be folded, and the list a fifth
\* higher needs another transposition to get the same pitches.
C28_Witness ==
    /\ trPc = "once"
    /\ trRange = VoiceRanges[2]
    /\ Len(trSequence) >= 2
    /\ \E i, j \in 1..Len(trSequence) :
          trSequence[i].pitch # trSequence[j].pitch
    /\ ~NoFoldNeeded(trSequence, trRange)
    /\ TransposeOf(Transposed(trSequence, 7), trRange)
          = TransposeOf(trSequence, trRange) - 7
    /\ SamePitches(transposeToRange(Transposed(trSequence, 7), trRange),
                   trOnce)

(***************************************************************************)
(* The melody transcribe() returns                                         *)
(***************************************************************************)
\* The start times of the notes are in non-decreasing order.
StartsInOrder(notes) ==
    \A i \in 1..(Len(notes) - 1) : notes[i].startTime <= notes[i + 1].startTime

\* No note ends after the next one starts.
NoOverlap(notes) ==
    \A i \in 1..(Len(notes) - 1) : notes[i].endTime <= notes[i + 1].startTime

\* C29 as stated: the melody transcribe() returns stays monophonic after
\* quantization: the start times of the quantized notes are non-decreasing
\* and each note's endTime is <= the next note's startTime.
C29_QuantizedMelodyMonophonic ==
    tcPc = "returned" =>
        /\ StartsInOrder(transcribedSequence.notes)
        /\ NoOverlap(transcribedSequence.notes)

\* transcribe() has returned two notes that did not overlap when segmented
\* and overlap as quantized.
C29_Witness ==
    /\ tcPc = "returned"
    /\ Len(segNotes) = 2
    /\ NoOverlap(segNotes)
    /\ Len(transcribedSequence.notes) = 2
    /\ StartsInOrder(transcribedSequence.notes)
    /\ transcribedSequence.notes[1].endTime
          > transcribedSequence.notes[2].startTime

(***************************************************************************)
(* The record button (main.js) and AudioRecorder (recorder.js)             *)
(*                                                                         *)
(* A click runs the handler up to its first await that waits for the       *)
(* browser; what follows the await runs when the browser answers, and      *)
(* other clicks may come in between.  Continuations that only wait for an  *)
(* already settled promise run before any further click and belong to the  *)
(* step that settled it.                                                   *)
(***************************************************************************)
MaxClicks == 4

Handler(pc, rec) == [pc |-> pc, rec |-> rec]

\* A click with isRecording false: startRecording() is called and waits in
\* ensureContext().
ClickRecord ==
    /\ Len(handlers) < MaxClicks
    /\ ~isRecording
    /\ handlers' = Append(handlers, Handler("context", 0))
    /\ UNCHANGED <<isRecording, audioBuffer, mediaRecorder, recorders>>

\* The AudioContext is running: startRecording() asks for the microphone.
ContextReady(h) ==
    /\ handlers[h].pc = "context"
    /\ handlers' = [handlers EXCEPT ![h].pc = "stream"]
    /\ UNCHANGED <<isRecording, audioBuffer, mediaRecorder, recorders>>

\* getUserMedia resolves: a MediaRecorder is constructed, stored in
\* this.mediaRecorder and started; the handler then sets isRecording.
StreamGranted(h) ==
    /\ handlers[h].pc = "stream"
    /\ recorders' = Append(recorders, "recording")
    /\ mediaRecorder' = <<Len(recorders) + 1>>
    /\ isRecording' = TRUE
    /\ handlers' = [handlers EXCEPT ![h].pc = "done"]
    /\ UNCHANGED audioBuffer

\* getUserMedia rejects: startRecording() rethrows and the handler's catch
\* only reports.
StreamDenied(h) ==
    /\ handlers[h].pc = "stream"
    /\ handlers' = [handlers EXCEPT ![h].pc = "done"]
    /\ UNCHANGED <<isRecording, audioBuffer, mediaRecorder, recorders>>

\* A click with isRecording true while this.mediaRecorder is set:
\* stopRecording() stops it, forgets it and waits for its audio.
ClickStop ==
    /\ Len(handlers) < MaxClicks
    /\ isRecording
    /\ mediaRecorder # <<>>
    /\ recorders' = [recorders EXCEPT ![mediaRecorder[1]] = "inactive"]
    /\ handlers' = Append(handlers, Handler("stopping", mediaRecorder[1]))
    /\ mediaRecorder' = <<>>
    /\ UNCHANGED <<isRecording, audioBuffer>>

\* A click with isRecording true while this.mediaRecorder is null:
\* stopRecording() resolves null at once.
ClickStopNothing ==
    /\ Len(handlers) < MaxClicks
    /\ isRecording
    /\ mediaRecorder = <<>>
    /\ audioBuffer' = <<>>
    /\ isRecording' = FALSE
    /\ handlers' = Append(handlers, Handler("done", 0))
    /\ UNCHANGED <<mediaRecorder, recorders>>

\* onstop has decoded the audio: the handler stores it and clears
\* isRecording.
StopDecoded(h) ==
    /\ handlers[h].pc = "stopping"
    /\ audioBuffer' = <<handlers[h].rec>>
    /\ isRecording' = FALSE
    /\ handlers' = [handlers EXCEPT ![h].pc = "done"]
    /\ UNCHANGED <<mediaRecorder, recorders>>

\* decodeAudioData rejects: the await in the handler throws, and nothing
\* after it runs.
StopDecodeFailed(h) ==
    /\ handlers[h].pc = "stopping"
    /\ handlers' = [handlers EXCEPT ![h].pc = "done"]
    /\ UNCHANGED <<isRecording, audioBuffer, mediaRecorder, recorders>>

InitRecorder ==
    /\ RecorderIdle
    /\ ClampIdle /\ RangeIdle /\ QuantIdle /\ SegIdle /\ GenIdle /\ MidiIdle
    /\ TranscribeIdle

NextRecorder ==
    /\ \/ ClickRecord
       \/ ClickStop
       \/ ClickStopNothing
       \/ \E h \in 1..Len(handlers) :
              \/ ContextReady(h)
              \/ StreamGranted(h)
              \/ StreamDenied(h)
              \/ StopDecoded(h)
              \/ StopDecodeFailed(h)
    /\ UNCHANGED <<clampVars, rangeVars, quantVars, segVars, genVars,
                   midiVars, transcribeVars>>

SpecRecorder == InitRecorder /\ [][NextRecorder]_vars

\* The MediaRecorders that were started and not yet stopped.
ActiveRecorders == {r \in 1..Len(recorders) : recorders[r] = "recording"}

\* C30: however the clicks on the record button interleave with the pending
\* startRecording/stopRecording, at most one MediaRecorder is recording,
\* isRecording is true only while exactly one recording started and not yet
\* stopped exists, and no started recording is lost: every one that is
\* still recording is the one this.mediaRecorder refers to, so that a
\* later click can stop it.
C30_OneRecordingAtATime ==
    /\ Cardinality(ActiveRecorders) <= 1
    /\ isRecording => Cardinality(ActiveRecorders) = 1
    /\ \A r \in ActiveRecorders : mediaRecorder = <<r>>

\* Two clicks before the microphone was granted: both handlers ran to their
\* end, two MediaRecorders are recording, and the first is out of reach.
C30_Witness ==
    /\ Len(handlers) = 2
    /\ \A h \in 1..2 : handlers[h].pc = "done"
    /\ ActiveRecorders = {1, 2}
    /\ mediaRecorder = <<2>>
    /\ isRecording

====
